---- MODULE Spec2Model ----
(***************************************************************************)
(* PlanetSupercell backend: the store (categories, products, orders,       *)
(* reviews) and the request handlers of the category, product, order and   *)
(* review controllers, and the login.  A handler that awaits more than one *)
(* store call is a sequence of steps, one per store call, with the request *)
(* held in inflight between the steps; the steps of different requests     *)
(* interleave unless a specification starts a request only when none is in *)
(* flight.  What a handler does between two store calls touches no shared  *)
(* state and is part of the step of the next call.  The middleware protect *)
(* awaits a store call too (User.findById) and is a step of its own: the   *)
(* route's handler starts in a later step, with req.user as protect read   *)
(* it.                                                                     *)
(*                                                                         *)
(* Ids.  A stored id is an ObjectId, modelled as a positive integer; Null  *)
(* is 0.  An id arriving in a request is a string: a record [id, canon],   *)
(* where id is the ObjectId the store casts the string to and canon says   *)
(* whether the string is the canonical spelling ObjectId.toString() gives  *)
(* (lower-case hex).  Two strings are === only when both fields agree; a   *)
(* store query casts, so it finds the document whatever the spelling.      *)
(* Strings that are no ObjectId at all (CastError) are not modelled.       *)
(*                                                                         *)
(* Left out of the state: description, rating, numReviews, screenshotPath, *)
(* timestamps, category name/image, review text and authorName, the user   *)
(* who created a product.  Numbers are integers.                           *)
(***************************************************************************)
EXTENDS Integers, Sequences, FiniteSets, TLC

\* ---------------------------------------------------------------- bounds
MaxQty == 2
MaxStock == 2
MaxOrders == 2
MaxAdminOrders == 1
MaxRestocks == 2
MaxCategories == 3
MaxProducts == 2
MaxCalls == 2
MaxTelegramId == 3
MaxPrice == 3

\* ------------------------------------------------------------- constants
Null == 0
UserIds == {1, 2}
ProductIds == {1, 2}
\* ADMIN_TELEGRAM_ID of the configuration
ADMIN_TG_ID == 1
\* a record without fields, a store without documents
Empty == [x \in {} |-> Null]
\* an id that never names a stored product
GhostProductId == Cardinality(ProductIds) + 1

\* OrderSchema.status enum
statusEnum == {"pending", "paid-pending", "processing", "completed", "refunded"}

\* mutant: the controller's list accepts a status the schema does not have
validStatusesAndShipped ==
    {"pending", "paid-pending", "processing", "completed", "refunded", "shipped"}

\* updateOrderStatus's list of accepted statuses
validStatuses == {"pending", "paid-pending", "processing", "completed", "refunded"}

VARIABLES users, categories, products, orders, reviews, idCounter, strictQuery,
          inflight, restocks, resp

vars == <<users, categories, products, orders, reviews, idCounter, strictQuery,
          inflight, restocks, resp>>

\* ----------------------------------------------------------- id strings
\* ObjectId.toString()
Str(oid) == [id |-> oid, canon |-> TRUE]
\* the ObjectId a query or an assignment casts a string to
Cast(s) == s.id
\* the strings a client can send for the ids in S
ReqIds(S) == [id : S, canon : BOOLEAN]
CanonIds(S) == {Str(x) : x \in S}

\* ------------------------------------------------------------ responses
\* a response carries: the order returned (<<>> when none), the ids of the
\* documents listed, the token issued (NoToken when none)
NoToken == [id |-> Null, isAdmin |-> FALSE]

Response(op, code) ==
    [op |-> op, code |-> code, error |-> "", productId |-> Null,
     availableStock |-> 0, categories |-> 0, products |-> 0,
     order |-> <<>>, list |-> {}, token |-> NoToken]

\* no response was sent
NoResponse == Response("none", 0)

\* ------------------------------------------------------ calls in flight
\* inflight holds the requests that wait for a store call, each a record
\* with pc, the call the request makes next, and what the request holds
dropCall(i) == [k \in 1..(Len(inflight) - 1) |->
                  IF k < i THEN inflight[k] ELSE inflight[k + 1]]

\* the request is answered, and leaves inflight when it was there (i > 0)
callAnswered(i, r) ==
    /\ resp' = r
    /\ inflight' = IF i = 0 THEN inflight ELSE dropCall(i)

\* the request goes on to its next store call
callMoves(i, pc) == inflight' = [inflight EXCEPT ![i].pc = pc] /\ UNCHANGED resp

\* the request waits for its second store call
callQueued(at, call) ==
    /\ inflight' = IF at = 0 THEN Append(inflight, call)
                    ELSE [inflight EXCEPT ![at] = call]
    /\ UNCHANGED resp

\* a store call that reads: the documents stay as they are
storeRead ==
    UNCHANGED <<users, categories, products, orders, reviews, idCounter,
                strictQuery, restocks>>

\* --------------------------------------------------------------- orders
\* Product.find({ _id: { $in: productIds } })
productsFromDB(items) ==
    {Cast(items[k].productId) : k \in 1..Len(items)} \cap DOMAIN products

\* mutant: the lookup casts the key as the query does
productMapCasts(items, key) == key.id \in productsFromDB(items)

\* productMap.get(item.productId): keys are p._id.toString()
productMapHas(items, key) == key.canon /\ key.id \in productsFromDB(items)

\* mutant: the check is off by one
insufficientStockOffByOne(product, item) == product.stock + 1 < item.quantity

insufficientStock(product, item) == product.stock < item.quantity

orderItem(pid, product, item) ==
    [productId |-> pid, name |-> product.name, quantity |-> item.quantity,
     price |-> product.price, image |-> product.image]

\* the validation loop over the request's items, from item k on
RECURSIVE checkItems(_, _, _, _)
checkItems(items, k, orderItems, totalAmount) ==
    IF k > Len(items)
    THEN [code |-> 0, orderItems |-> orderItems, totalAmount |-> totalAmount,
          productId |-> Null, availableStock |-> 0]
    ELSE LET item == items[k] IN
         IF ~productMapHas(items, item.productId)
         THEN [code |-> 404, orderItems |-> <<>>, totalAmount |-> 0,
               productId |-> Null, availableStock |-> 0]
         ELSE LET pid == Cast(item.productId)
                  product == products[pid]
              IN IF insufficientStock(product, item)
                 THEN [code |-> 400, orderItems |-> <<>>, totalAmount |-> 0,
                       productId |-> pid, availableStock |-> product.stock]
                 ELSE checkItems(items, k + 1,
                                 Append(orderItems, orderItem(pid, product, item)),
                                 totalAmount + product.price * item.quantity)

\* mutant: the stock moves by one unit whatever the quantity
incStockOneUnit(prods, pid, n) ==
    IF pid \in DOMAIN prods
    THEN [prods EXCEPT ![pid].stock = @ + (IF n < 0 THEN 0 - 1 ELSE 1)]
    ELSE prods

\* Product.findByIdAndUpdate(id, { $inc: { stock: n } }): no validators run,
\* and a missing product is no error
incStock(prods, pid, n) ==
    IF pid \in DOMAIN prods
    THEN [prods EXCEPT ![pid].stock = @ + n]
    ELSE prods

\* one findByIdAndUpdate per order item, in order, each adding sign * quantity
RECURSIVE incStockAll(_, _, _, _)
incStockAll(prods, orderItems, k, sign) ==
    IF k > Len(orderItems) THEN prods
    ELSE incStockAll(incStock(prods, orderItems[k].productId,
                              sign * orderItems[k].quantity),
                     orderItems, k + 1, sign)

newOrder(userId, orderItems, totalAmount) ==
    [user |-> userId, items |-> orderItems, totalAmount |-> totalAmount,
     status |-> "paid-pending", reviewSubmitted |-> FALSE]

\* order.save() validation: OrderItemSchema.quantity min 1
orderValid(order) == \A k \in 1..Len(order.items) : order.items[k].quantity >= 1

\* the outcome of createOrder on the current store
createOrderResult(userId, items) ==
    IF Len(items) = 0
    THEN [products |-> products, orders |-> orders,
          resp |-> Response("createOrder", 400)]
    ELSE LET chk == checkItems(items, 1, <<>>, 0) IN
         IF chk.code # 0
         THEN [products |-> products, orders |-> orders,
               resp |-> [Response("createOrder", chk.code)
                           EXCEPT !.productId = chk.productId,
                                  !.availableStock = chk.availableStock]]
         ELSE LET order == newOrder(userId, chk.orderItems, chk.totalAmount)
                  decremented == incStockAll(products, chk.orderItems, 1, -1)
              IN IF orderValid(order)
                 THEN [products |-> decremented, orders |-> Append(orders, order),
                       resp |-> Response("createOrder", 201)]
                 ELSE [products |-> decremented, orders |-> orders,
                       resp |-> Response("createOrder", 400)]

\* mutant: the refund branch does not look at the old status
restockOnEveryRefund(oldStatus, newStatus) == newStatus = "refunded"

\* the refund branch: newStatus === 'refunded' && oldStatus !== 'refunded'
restockNeeded(oldStatus, newStatus) ==
    newStatus = "refunded" /\ oldStatus # "refunded"

\* the outcome of updateOrderStatus on the current store; orderId is a request
\* string, status any string ("" when the body has none)
updateOrderStatusResult(orderId, status) ==
    IF status \notin validStatuses
    THEN [products |-> products, orders |-> orders, restocked |-> FALSE,
          resp |-> Response("updateOrderStatus", 400)]
    ELSE IF Cast(orderId) \notin 1..Len(orders)
    THEN [products |-> products, orders |-> orders, restocked |-> FALSE,
          resp |-> Response("updateOrderStatus", 404)]
    ELSE LET order == orders[Cast(orderId)]
             restock == restockNeeded(order.status, status)
         IN [products |-> IF restock
                          THEN incStockAll(products, order.items, 1, 1)
                          ELSE products,
             orders |-> [orders EXCEPT ![Cast(orderId)].status = status],
             restocked |-> restock,
             resp |-> Response("updateOrderStatus", 200)]

\* ------------------------------------------------------------- products
\* a request body is a record holding only the fields the client sent
Has(body, f) == f \in DOMAIN body
Field(body, f, default) == IF Has(body, f) THEN body[f] ELSE default

\* Category.findById(id) for a request string
categoryExists(s) == Cast(s) \in DOMAIN categories

\* oldPrice ? Number(oldPrice) : null
normOldPrice(oldPrice) == IF oldPrice # 0 THEN oldPrice ELSE Null

\* mutant: an old price equal to the price passes
oldPriceBelow(oldPrice, price) == oldPrice < price

\* oldPrice <= price of createProduct, currentOldPrice <= currentPrice of
\* updateProduct
oldPriceTooLow(oldPrice, price) == oldPrice <= price

\* new Product({ name, price: Number(price), ..., oldPrice: oldPrice ?
\* Number(oldPrice) : null }) from a body that passed the validation
newProduct(body) ==
    [name |-> body.name, price |-> body.price, image |-> Field(body, "image", ""),
     stock |-> Field(body, "stock", 0), categoryId |-> Cast(body.categoryId),
     oldPrice |-> normOldPrice(Field(body, "oldPrice", Null))]

\* the outcome of createProduct; body fields: name, price, image, stock,
\* categoryId (a request string), oldPrice (a number, 0 included; a body
\* without the field stands for oldPrice null too)
createProductResult(body) ==
    LET name == Field(body, "name", "")
        price == Field(body, "price", 0)
        image == Field(body, "image", "")
        stock == Field(body, "stock", 0)
        oldPrice == Field(body, "oldPrice", Null)
        hasCategory == Has(body, "categoryId") /\ Cast(body.categoryId) # Null
        bad == [products |-> products, idCounter |-> idCounter,
                resp |-> Response("createProduct", 400)]
        pid == idCounter.product + 1
    IN IF name = "" \/ price = 0 \/ ~hasCategory THEN bad
       ELSE IF price <= 0 THEN bad
       ELSE IF stock < 0 THEN bad
       ELSE IF Has(body, "oldPrice") /\ oldPrice < 0 THEN bad
       ELSE IF Has(body, "oldPrice") /\ oldPriceTooLow(oldPrice, price) THEN bad
       ELSE IF ~categoryExists(body.categoryId) THEN bad
       ELSE [products |-> [p \in DOMAIN products \cup {pid} |->
                             IF p = pid THEN newProduct(body)
                             ELSE products[p]],
             idCounter |-> [idCounter EXCEPT !.product = pid],
             resp |-> Response("createProduct", 201)]

\* the tests of the body against the product read: price, stock, and the old
\* price the product would have against the price it would have
updateProductRefused(product, body) ==
    LET currentPrice == Field(body, "price", product.price)
        currentOldPrice == IF Has(body, "oldPrice")
                           THEN normOldPrice(body.oldPrice)
                           ELSE product.oldPrice
    IN \/ Has(body, "price") /\ body.price <= 0
       \/ Has(body, "stock") /\ body.stock < 0
       \/ currentOldPrice # Null /\ currentOldPrice < 0
       \/ currentOldPrice # Null /\ oldPriceTooLow(currentOldPrice, currentPrice)

\* the product read with the fields of the body assigned (the category is
\* assigned apart, after Category.findById)
assignedProduct(product, body) ==
    [name |-> IF Field(body, "name", "") # "" THEN body.name ELSE product.name,
     price |-> Field(body, "price", product.price),
     image |-> Field(body, "image", product.image),
     stock |-> Field(body, "stock", product.stock),
     categoryId |-> product.categoryId,
     oldPrice |-> IF Has(body, "oldPrice") THEN normOldPrice(body.oldPrice)
                  ELSE product.oldPrice]

\* product.save() validates every path of the document it holds, the paths
\* read as well as the paths assigned: ProductSchema price min 0.01, oldPrice
\* min 0, stock min 0 (null passes a min validator, and Null is 0)
productValid(doc) ==
    doc.price > 0 /\ doc.oldPrice >= 0 /\ doc.stock >= 0

\* the outcome of updateProduct; a document that fails the validation of
\* save() is not written, and the error handler answers 500
updateProductResult(productId, body) ==
    IF Cast(productId) \notin DOMAIN products
    THEN [products |-> products, resp |-> Response("updateProduct", 404)]
    ELSE LET pid == Cast(productId)
             product == products[pid]
             newCategory == Has(body, "categoryId") /\ Cast(body.categoryId) # Null
             doc == [assignedProduct(product, body) EXCEPT
                       !.categoryId = IF newCategory THEN Cast(body.categoryId)
                                      ELSE @]
         IN IF updateProductRefused(product, body)
            THEN [products |-> products, resp |-> Response("updateProduct", 400)]
            ELSE IF newCategory /\ ~categoryExists(body.categoryId)
            THEN [products |-> products, resp |-> Response("updateProduct", 400)]
            ELSE IF ~productValid(doc)
            THEN [products |-> products, resp |-> Response("updateProduct", 500)]
            ELSE [products |-> [products EXCEPT ![pid] = doc],
                  resp |-> Response("updateProduct", 200)]

\* 'items.productId': productId
orderHasProduct(order, pid) ==
    \E k \in 1..Len(order.items) : order.items[k].productId = pid

\* Order.findOne({ 'items.productId': productId,
\*                 status: { $nin: ['completed', 'refunded'] } })
activeOrdersExist(pid) ==
    \E o \in 1..Len(orders) :
        /\ orderHasProduct(orders[o], pid)
        /\ orders[o].status \notin {"completed", "refunded"}

\* the map without the keys in S
Without(f, S) == [x \in DOMAIN f \ S |-> f[x]]

\* deleteProduct, one store call at a time: Product.findById(productId); the
\* call is [pc, productId]
productDeleteFind(at, productId) ==
    /\ storeRead
    /\ IF Cast(productId) \notin DOMAIN products
       THEN callAnswered(at, Response("deleteProduct", 404))
       ELSE callQueued(at, [pc |-> "findActiveOrders", productId |-> Cast(productId)])

\* deleteProduct: Order.findOne({ 'items.productId', status: { $nin } })
productDeleteFindOrders(i) ==
    /\ inflight[i].pc = "findActiveOrders"
    /\ storeRead
    /\ IF activeOrdersExist(inflight[i].productId)
       THEN callAnswered(i, Response("deleteProduct", 400))
       ELSE callMoves(i, "deleteReviews")

\* deleteProduct: Review.deleteMany({ product: productId })
productDeleteReviews(i) ==
    /\ inflight[i].pc = "deleteReviews"
    /\ UNCHANGED <<users, categories, products, orders, idCounter, strictQuery,
                   restocks>>
    /\ reviews' = Without(reviews, {r \in DOMAIN reviews :
                                      reviews[r].product = inflight[i].productId})
    /\ callMoves(i, "deleteProduct")

\* deleteProduct: product.deleteOne() removes the document when it is still
\* stored, and the request answers 200 either way
productDeleteOne(i) ==
    /\ inflight[i].pc = "deleteProduct"
    /\ UNCHANGED <<users, categories, orders, reviews, idCounter, strictQuery,
                   restocks>>
    /\ products' = Without(products, {inflight[i].productId})
    /\ callAnswered(i, Response("deleteProduct", 200))

\* -------------------------------------------------------------- reviews
\* mutant: the filter does not name the status
eligibleOrderAnyStatus(orderId, userId, pid) ==
    /\ Cast(orderId) \in 1..Len(orders)
    /\ strictQuery
    /\ orderHasProduct(orders[Cast(orderId)], pid)

\* Order.findOne({ _id: orderId, userId: userId, status: 'completed',
\*                 'items.productId': productId }).
\* OrderSchema has no path userId (the owner is stored in user).  With
\* strictQuery on, mongoose drops the unknown path from the filter; with it
\* off the condition reaches the store, where no order has a field userId.
eligibleOrder(orderId, userId, pid) ==
    /\ Cast(orderId) \in 1..Len(orders)
    /\ strictQuery
    /\ orders[Cast(orderId)].status = "completed"
    /\ orderHasProduct(orders[Cast(orderId)], pid)

\* mutant: the check for an earlier review of the product is switched off
existingReviewIgnored(pid, userId) == FALSE

\* Review.findOne({ product: productId, user: userId })
existingReview(pid, userId) ==
    \E r \in DOMAIN reviews : reviews[r].product = pid /\ reviews[r].user = userId

\* !productId, !orderId: the id is missing, null or ''
truthyId(body, f) == Has(body, f) /\ Cast(body[f]) # Null

\* createReview, one store call at a time; body fields: productId, orderId
\* (request strings, Str(Null) for null or ''), rating.  The call is
\* [pc, userId, productId, orderId, rating].
reviewAnswered(i, code, error) ==
    /\ resp' = [Response("createReview", code) EXCEPT !.error = error]
    /\ inflight' = IF i = 0 THEN inflight ELSE dropCall(i)

\* the validation, then Product.findById(productId)
reviewFindProduct(at, userId, body) ==
    /\ UNCHANGED <<users, categories, products, orders, reviews, idCounter,
                   strictQuery, restocks>>
    /\ LET rating == Field(body, "rating", 0) IN
       IF \/ ~truthyId(body, "productId") \/ ~truthyId(body, "orderId")
          \/ rating = 0
       THEN reviewAnswered(at, 400, "validation")
       ELSE IF rating < 1 \/ rating > 5 THEN reviewAnswered(at, 400, "validation")
       ELSE IF Cast(body.productId) \notin DOMAIN products
       THEN reviewAnswered(at, 404, "not-found")
       ELSE /\ callQueued(at,
                             [pc |-> "findOrder", userId |-> userId,
                              productId |-> Cast(body.productId),
                              orderId |-> body.orderId, rating |-> rating])

\* Order.findOne(...), then the test of order.reviewSubmitted
reviewFindOrder(i) ==
    /\ inflight[i].pc = "findOrder"
    /\ UNCHANGED <<users, categories, products, orders, reviews, idCounter,
                   strictQuery, restocks>>
    /\ LET call == inflight[i] IN
       IF ~eligibleOrder(call.orderId, call.userId, call.productId)
       THEN reviewAnswered(i, 403, "not-eligible")
       ELSE IF orders[Cast(call.orderId)].reviewSubmitted
       THEN reviewAnswered(i, 400, "already-submitted")
       ELSE callMoves(i, "findExisting")

\* Review.findOne({ product, user })
reviewFindExisting(i) ==
    /\ inflight[i].pc = "findExisting"
    /\ UNCHANGED <<users, categories, products, orders, reviews, idCounter,
                   strictQuery, restocks>>
    /\ IF existingReview(inflight[i].productId, inflight[i].userId)
       THEN reviewAnswered(i, 400, "duplicate")
       ELSE callMoves(i, "saveReview")

\* review.save(): the unique index { product, user } refuses a second
\* document of the pair, and the handler answers 500
reviewSave(i) ==
    /\ inflight[i].pc = "saveReview"
    /\ UNCHANGED <<users, categories, products, orders, strictQuery, restocks>>
    /\ LET call == inflight[i]
           rid == idCounter.review + 1
       IN IF existingReview(call.productId, call.userId)
          THEN /\ reviewAnswered(i, 500, "server")
               /\ UNCHANGED <<reviews, idCounter>>
          ELSE /\ reviews' = [r \in DOMAIN reviews \cup {rid} |->
                                IF r = rid
                                THEN [user |-> call.userId,
                                      product |-> call.productId,
                                      order |-> Cast(call.orderId),
                                      rating |-> call.rating]
                                ELSE reviews[r]]
               /\ idCounter' = [idCounter EXCEPT !.review = rid]
               /\ callMoves(i, "saveOrder")

\* order.reviewSubmitted = true; order.save(); res.status(201)
reviewSaveOrder(i) ==
    /\ inflight[i].pc = "saveOrder"
    /\ UNCHANGED <<users, categories, products, reviews, idCounter, strictQuery,
                   restocks>>
    /\ orders' = [orders EXCEPT ![Cast(inflight[i].orderId)].reviewSubmitted = TRUE]
    /\ reviewAnswered(i, 201, "")

\* deleteReview, one store call at a time: Review.findById(reviewId); the
\* call is [pc, reviewId, order], order the order the review read names
reviewDeleteFind(at, reviewId) ==
    /\ storeRead
    /\ IF Cast(reviewId) \notin DOMAIN reviews
       THEN callAnswered(at, Response("deleteReview", 404))
       ELSE callQueued(at, [pc |-> "findReviewOrder", reviewId |-> Cast(reviewId),
                        order |-> reviews[Cast(reviewId)].order])

\* deleteReview: Order.findById(review.order); the order read is not used
reviewDeleteFindOrder(i) ==
    /\ inflight[i].pc = "findReviewOrder"
    /\ storeRead
    /\ callMoves(i, "deleteReview")

\* mutant: the flag reset the source keeps commented out is carried out
reviewDeleteOneResetsFlag(i) ==
    /\ inflight[i].pc = "deleteReview"
    /\ UNCHANGED <<users, categories, products, idCounter, strictQuery, restocks>>
    /\ reviews' = Without(reviews, {inflight[i].reviewId})
    /\ orders' = [orders EXCEPT ![inflight[i].order].reviewSubmitted = FALSE]
    /\ callAnswered(i, Response("deleteReview", 200))

\* deleteReview: review.deleteOne() removes the document when it is still
\* stored, and the request answers 200 either way
reviewDeleteOne(i) ==
    /\ inflight[i].pc = "deleteReview"
    /\ UNCHANGED <<users, categories, products, orders, idCounter, strictQuery,
                   restocks>>
    /\ reviews' = Without(reviews, {inflight[i].reviewId})
    /\ callAnswered(i, Response("deleteReview", 200))

\* ------------------------------------- orders, one store call at a time
\* createOrder, one store call at a time.  Its calls in inflight are
\* [pc, userId, productMap, orderItems, totalAmount, k]: the products read,
\* the snapshots and the total the validation loop built from them, and the
\* position k of the item whose stock is decremented next.
orderAnswered(i, r) ==
    /\ resp' = r
    /\ inflight' = IF i = 0 THEN inflight ELSE dropCall(i)

\* the empty-cart test, Product.find({ _id: { $in: productIds } }) and the
\* validation loop over the products read
orderFind(at, userId, items) ==
    /\ UNCHANGED <<users, categories, products, orders, reviews, idCounter,
                   strictQuery, restocks>>
    /\ IF Len(items) = 0
       THEN orderAnswered(at, Response("createOrder", 400))
       ELSE LET chk == checkItems(items, 1, <<>>, 0) IN
            IF chk.code # 0
            THEN orderAnswered(at, [Response("createOrder", chk.code)
                                     EXCEPT !.productId = chk.productId,
                                            !.availableStock = chk.availableStock])
            ELSE /\ callQueued(at,
                                  [pc |-> "decrementStock", userId |-> userId,
                                   productMap |-> [p \in productsFromDB(items) |->
                                                     products[p]],
                                   orderItems |-> chk.orderItems,
                                   totalAmount |-> chk.totalAmount, k |-> 1])

\* mutant: the decrement is conditional on the stock the store holds then
\* ({ _id, stock: { $gte: quantity } }), and skipped when it is short
orderDecrementChecked(i) ==
    /\ inflight[i].pc = "decrementStock"
    /\ UNCHANGED <<users, categories, orders, reviews, idCounter, strictQuery,
                   restocks, resp>>
    /\ LET call == inflight[i]
           item == call.orderItems[call.k]
       IN /\ products' = IF /\ item.productId \in DOMAIN products
                            /\ products[item.productId].stock < item.quantity
                         THEN products
                         ELSE incStock(products, item.productId, -item.quantity)
          /\ inflight' = [inflight EXCEPT
                            ![i].k = @ + 1,
                            ![i].pc = IF call.k = Len(call.orderItems)
                                      THEN "saveNewOrder" ELSE @]

\* one Product.findByIdAndUpdate(item.productId, { $inc: { stock: -quantity } })
\* of the decrement loop
orderDecrement(i) ==
    /\ inflight[i].pc = "decrementStock"
    /\ UNCHANGED <<users, categories, orders, reviews, idCounter, strictQuery,
                   restocks, resp>>
    /\ LET call == inflight[i]
           item == call.orderItems[call.k]
       IN /\ products' = incStock(products, item.productId, -item.quantity)
          /\ inflight' = [inflight EXCEPT
                            ![i].k = @ + 1,
                            ![i].pc = IF call.k = Len(call.orderItems)
                                      THEN "saveNewOrder" ELSE @]

\* order.save(), with the schema validation of the items' quantities
orderSave(i) ==
    /\ inflight[i].pc = "saveNewOrder"
    /\ UNCHANGED <<users, categories, products, reviews, idCounter, strictQuery>>
    /\ LET call == inflight[i]
           order == newOrder(call.userId, call.orderItems, call.totalAmount)
       IN IF orderValid(order)
          THEN /\ orders' = Append(orders, order)
               /\ restocks' = Append(restocks, 0)
               /\ orderAnswered(i, Response("createOrder", 201))
          ELSE /\ UNCHANGED <<orders, restocks>>
               /\ orderAnswered(i, Response("createOrder", 400))

\* updateOrderStatus, one store call at a time.  Its calls in inflight are
\* [pc, orderId, status, oldStatus, items, k]: the status asked for, the
\* order's status and items as they were read, and the position k of the
\* item restocked next.
\* The test of the status, Order.findById(orderId) and the choice of the
\* refund branch from the status read; restocks counts, per order, the runs
\* of the refund branch (history only)
statusFind(at, orderId, status) ==
    /\ UNCHANGED <<users, categories, products, orders, reviews, idCounter,
                   strictQuery>>
    /\ LET r == updateOrderStatusResult(orderId, status) IN
       IF r.resp.code # 200
       THEN orderAnswered(at, r.resp) /\ UNCHANGED restocks
       ELSE /\ r.restocked => restocks[Cast(orderId)] < MaxRestocks
            /\ restocks' = IF r.restocked
                           THEN [restocks EXCEPT ![Cast(orderId)] = @ + 1]
                           ELSE restocks
            /\ callQueued(at,
                             [pc |-> IF r.restocked THEN "restock"
                                     ELSE "saveStatus",
                              orderId |-> Cast(orderId), status |-> status,
                              oldStatus |-> orders[Cast(orderId)].status,
                              items |-> orders[Cast(orderId)].items, k |-> 1])

\* one Product.findByIdAndUpdate(item.productId, { $inc: { stock: quantity } })
\* of the refund loop
statusRestock(i) ==
    /\ inflight[i].pc = "restock"
    /\ UNCHANGED <<users, categories, orders, reviews, idCounter, strictQuery,
                   restocks, resp>>
    /\ LET call == inflight[i]
           item == call.items[call.k]
       IN /\ products' = incStock(products, item.productId, item.quantity)
          /\ inflight' = [inflight EXCEPT
                            ![i].k = @ + 1,
                            ![i].pc = IF call.k = Len(call.items)
                                      THEN "saveStatus" ELSE @]

\* mutant: one try/catch around the whole loop, the failing increment ends
\* the restocking
statusRestockEnds(i) ==
    /\ inflight[i].pc = "restock"
    /\ UNCHANGED <<users, categories, products, orders, reviews, idCounter,
                   strictQuery, restocks, resp>>
    /\ inflight' = [inflight EXCEPT ![i].k = Len(inflight[i].items) + 1,
                                    ![i].pc = "saveStatus"]

\* a findByIdAndUpdate of the refund loop that throws: the catch inside the
\* loop logs the error and the loop goes on with the next item
statusRestockFails(i) ==
    /\ inflight[i].pc = "restock"
    /\ UNCHANGED <<users, categories, products, orders, reviews, idCounter,
                   strictQuery, restocks, resp>>
    /\ inflight' = [inflight EXCEPT
                      ![i].k = @ + 1,
                      ![i].pc = IF inflight[i].k = Len(inflight[i].items)
                                THEN "saveStatus" ELSE @]

\* the total of an order's items at the products' present prices
RECURSIVE repricedTotal(_, _)
repricedTotal(orderItems, k) ==
    IF k > Len(orderItems) THEN 0
    ELSE (IF orderItems[k].productId \in DOMAIN products
          THEN products[orderItems[k].productId].price * orderItems[k].quantity
          ELSE 0)
         + repricedTotal(orderItems, k + 1)

\* mutant: saving the status also recomputes totalAmount from the products
statusSaveRepricing(i) ==
    /\ inflight[i].pc = "saveStatus"
    /\ UNCHANGED <<users, categories, products, reviews, idCounter, strictQuery,
                   restocks>>
    /\ orders' = [orders EXCEPT
                    ![inflight[i].orderId].status = inflight[i].status,
                    ![inflight[i].orderId].totalAmount =
                        repricedTotal(inflight[i].items, 1)]
    /\ orderAnswered(i, Response("updateOrderStatus", 200))

\* order.status = newStatus; order.save(): the save writes the status when
\* it differs from the status read, and nothing else
statusSave(i) ==
    /\ inflight[i].pc = "saveStatus"
    /\ UNCHANGED <<users, categories, products, reviews, idCounter, strictQuery,
                   restocks>>
    /\ orders' = IF inflight[i].status # inflight[i].oldStatus
                 THEN [orders EXCEPT
                         ![inflight[i].orderId].status = inflight[i].status]
                 ELSE orders
    /\ orderAnswered(i, Response("updateOrderStatus", 200))

\* ----------------------------------------------------------- categories
\* Category.find({ parentId: parentId })
childrenOf(parentId) ==
    {c \in DOMAIN categories : categories[c].parentId = parentId}

\* the recursion of getAllDescendantIds, cut after fuel levels
RECURSIVE descendantIdsWithin(_, _)
descendantIdsWithin(parentId, fuel) ==
    IF fuel = 0 THEN childrenOf(parentId)
    ELSE childrenOf(parentId) \cup
         UNION {descendantIdsWithin(child, fuel - 1) : child \in childrenOf(parentId)}

\* With n categories in a forest the recursion is at most n - 1 deep.
getAllDescendantIds(parentId) ==
    descendantIdsWithin(parentId, Cardinality(DOMAIN categories))

\* the recursion never ends: a category below parentId (or parentId itself)
\* is its own descendant
getAllDescendantIdsLoops(parentId) ==
    \E c \in getAllDescendantIds(parentId) \cup {parentId} :
        c \in getAllDescendantIds(c)

\* a truthy parentId in a body
truthyParent(body) == Has(body, "parentId") /\ Cast(body.parentId) # Null

\* parentId === categoryId
selfParent(parentId, categoryId) == parentId = categoryId

\* ------------------- products and categories, one store call at a time
\* createProduct: the validation and Category.findById(categoryId); the
\* call waiting for product.save() is [pc, body]
productFindCategory(at, body) ==
    /\ UNCHANGED <<users, categories, products, orders, reviews, idCounter,
                   strictQuery, restocks>>
    /\ LET r == createProductResult(body) IN
       IF r.resp.code # 201
       THEN callAnswered(at, r.resp)
       ELSE /\ callQueued(at, [pc |-> "saveProduct", body |-> body])

\* createProduct: product.save()
productSave(i) ==
    /\ inflight[i].pc = "saveProduct"
    /\ UNCHANGED <<users, categories, orders, reviews, strictQuery, restocks>>
    /\ LET pid == idCounter.product + 1 IN
       /\ products' = [p \in DOMAIN products \cup {pid} |->
                         IF p = pid THEN newProduct(inflight[i].body)
                         ELSE products[p]]
       /\ idCounter' = [idCounter EXCEPT !.product = pid]
    /\ callAnswered(i, Response("createProduct", 201))

\* updateProduct: Product.findById(productId), the tests of the body and
\* the await of Category.findById when the body names a category; the call
\* is [pc, productId, loaded, doc, categoryId]: the document as it was read,
\* the document with the values of the body (assigned before save(), from
\* the body and the document read alone), and the categoryId of the body
\* ("" when it has none)
productUpdateFind(at, productId, body) ==
    /\ UNCHANGED <<users, categories, products, orders, reviews, idCounter,
                   strictQuery, restocks>>
    /\ IF Cast(productId) \notin DOMAIN products
       THEN callAnswered(at, Response("updateProduct", 404))
       ELSE LET product == products[Cast(productId)]
                newCategory == Has(body, "categoryId") /\ Cast(body.categoryId) # Null
            IN IF updateProductRefused(product, body)
               THEN callAnswered(at, Response("updateProduct", 400))
               ELSE /\ callQueued(at,
                                     [pc |-> IF newCategory THEN "findCategory"
                                             ELSE "saveUpdate",
                                      productId |-> Cast(productId),
                                      loaded |-> product,
                                      doc |-> assignedProduct(product, body),
                                      categoryId |-> IF newCategory
                                                     THEN body.categoryId
                                                     ELSE Str(Null)])

\* updateProduct: the answer of Category.findById(categoryId), then
\* product.categoryId = categoryId
productUpdateFindCategory(i) ==
    /\ inflight[i].pc = "findCategory"
    /\ UNCHANGED <<users, categories, products, orders, reviews, idCounter,
                   strictQuery, restocks>>
    /\ IF ~categoryExists(inflight[i].categoryId)
       THEN callAnswered(i, Response("updateProduct", 400))
       ELSE /\ inflight' = [inflight EXCEPT
                              ![i].pc = "saveUpdate",
                              ![i].doc.categoryId = Cast(inflight[i].categoryId)]
            /\ UNCHANGED resp

\* updateProduct: product.save() validates the document the request holds
\* and answers 500, writing nothing, when it fails; else it writes the paths
\* whose value differs from the document read; when the document is no
\* longer stored the save throws and the request answers 500
productUpdateSave(i) ==
    /\ inflight[i].pc = "saveUpdate"
    /\ UNCHANGED <<users, categories, orders, reviews, idCounter, strictQuery,
                   restocks>>
    /\ LET call == inflight[i]
           pid == call.productId
       IN IF ~productValid(call.doc) \/ pid \notin DOMAIN products
          THEN /\ UNCHANGED products
               /\ callAnswered(i, Response("updateProduct", 500))
          ELSE /\ products' =
                     [products EXCEPT ![pid] =
                        [f \in DOMAIN call.doc |->
                           IF call.doc[f] # call.loaded[f] THEN call.doc[f]
                           ELSE products[pid][f]]]
               /\ callAnswered(i, Response("updateProduct", 200))

\* createCategory: category.save()
savedCategory(parentId) ==
    LET cid == idCounter.category + 1 IN
    /\ categories' = [c \in DOMAIN categories \cup {cid} |->
                        IF c = cid THEN [parentId |-> parentId] ELSE categories[c]]
    /\ idCounter' = [idCounter EXCEPT !.category = cid]

\* createCategory: the test of the name, then the first store call:
\* Category.findById(parentId) when the body names a parent (a request
\* string, Str(Null) for null or ''), and category.save() when it names
\* none; the call waiting for category.save() is [pc, parentId]
categoryCreateFind(at, body) ==
    /\ UNCHANGED <<users, products, orders, reviews, strictQuery, restocks>>
    /\ IF Field(body, "name", "") = ""
       THEN /\ UNCHANGED <<categories, idCounter>>
            /\ callAnswered(at, Response("createCategory", 400))
       ELSE IF ~truthyParent(body)
       THEN /\ savedCategory(Null)
            /\ callAnswered(at, Response("createCategory", 201))
       ELSE /\ UNCHANGED <<categories, idCounter>>
            /\ IF ~categoryExists(body.parentId)
               THEN callAnswered(at, Response("createCategory", 400))
               ELSE callQueued(at, [pc |-> "saveNewCategory",
                                parentId |-> Cast(body.parentId)])

\* createCategory: category.save() after the parent was found
categoryCreateSave(i) ==
    /\ inflight[i].pc = "saveNewCategory"
    /\ UNCHANGED <<users, products, orders, reviews, strictQuery, restocks>>
    /\ savedCategory(inflight[i].parentId)
    /\ callAnswered(i, Response("createCategory", 201))

\* the documents a find returns, in the order of their ids
RECURSIVE inIdOrder(_)
inIdOrder(S) ==
    IF S = {} THEN <<>>
    ELSE LET first == CHOOSE x \in S : \A y \in S : x <= y
         IN <<first>> \o inIdOrder(S \ {first})

\* deleteCategory: Category.findById(categoryId); the call is [pc,
\* categoryId, ids, todo, deletedProducts]: ids is allCategoryIdsToDelete as
\* far as it is collected, todo the categories whose children
\* getAllDescendantIds has still to find, in the order of its calls
categoryDeleteFind(at, categoryId) ==
    /\ storeRead
    /\ IF ~categoryExists(categoryId)
       THEN callAnswered(at, Response("deleteCategory", 404))
       ELSE callQueued(at, [pc |-> "findChildren",
                        categoryId |-> Cast(categoryId),
                        ids |-> {Cast(categoryId)},
                        todo |-> <<Cast(categoryId)>>,
                        deletedProducts |-> 0])

\* mutant: the children found are collected and their own children are not
\* looked for
categoryDeleteWalkOneLevel(i) ==
    /\ inflight[i].pc = "findChildren"
    /\ storeRead
    /\ UNCHANGED resp
    /\ inflight' = [inflight EXCEPT
                      ![i].ids = @ \cup childrenOf(Head(inflight[i].todo)),
                      ![i].todo = <<>>,
                      ![i].pc = "deleteProducts"]

\* deleteCategory: one Category.find({ parentId }) of getAllDescendantIds, for
\* the category the recursion has reached; its children are collected, and
\* their children are looked for before those of the categories found
\* earlier.  A walk that holds more than MaxCategories categories to look
\* into goes round a cycle and is left waiting.
categoryDeleteWalk(i) ==
    /\ inflight[i].pc = "findChildren"
    /\ storeRead
    /\ UNCHANGED resp
    /\ LET children == childrenOf(Head(inflight[i].todo))
           todo == inIdOrder(children) \o Tail(inflight[i].todo)
       IN /\ Len(todo) <= MaxCategories
          /\ inflight' = [inflight EXCEPT
                            ![i].ids = @ \cup children,
                            ![i].todo = todo,
                            ![i].pc = IF todo = <<>> THEN "deleteProducts"
                                      ELSE "findChildren"]

\* deleteCategory: Product.deleteMany({ categoryId: { $in: ids } })
categoryDeleteProducts(i) ==
    /\ inflight[i].pc = "deleteProducts"
    /\ UNCHANGED <<users, categories, orders, reviews, idCounter, strictQuery,
                   restocks, resp>>
    /\ LET deleted == {p \in DOMAIN products :
                          products[p].categoryId \in inflight[i].ids}
       IN /\ products' = Without(products, deleted)
          /\ inflight' = [inflight EXCEPT
                            ![i].pc = "deleteCategories",
                            ![i].deletedProducts = Cardinality(deleted)]

\* deleteCategory: Category.deleteMany({ _id: { $in: ids } })
categoryDeleteCategories(i) ==
    /\ inflight[i].pc = "deleteCategories"
    /\ UNCHANGED <<users, products, orders, reviews, idCounter, strictQuery,
                   restocks>>
    /\ LET deleted == inflight[i].ids \cap DOMAIN categories IN
       /\ categories' = Without(categories, deleted)
       /\ callAnswered(i, [Response("deleteCategory", 200) EXCEPT
                              !.categories = Cardinality(deleted) - 1,
                              !.products = inflight[i].deletedProducts])

\* updateCategory: Category.findById(categoryId) and the test that the new
\* parent is not the category itself; the call is [pc, categoryId, parentId,
\* clear, loaded, node]: the two request strings, whether the body asks for a
\* root, the parentId of the category as it was read, and the category the
\* walk of isDescendant reads next
categoryUpdateFind(at, categoryId, body) ==
    /\ storeRead
    /\ IF ~categoryExists(categoryId)
       THEN callAnswered(at, Response("updateCategory", 404))
       ELSE IF truthyParent(body) /\ selfParent(body.parentId, categoryId)
       THEN callAnswered(at, Response("updateCategory", 400))
       ELSE callQueued(at, [pc |-> IF truthyParent(body) THEN "checkDescendant"
                               ELSE "saveCategory",
                        categoryId |-> categoryId,
                        parentId |-> IF truthyParent(body) THEN body.parentId
                                     ELSE Str(Null),
                        clear |-> ~truthyParent(body) /\ Has(body, "parentId"),
                        loaded |-> categories[Cast(categoryId)].parentId,
                        node |-> IF truthyParent(body) THEN body.parentId
                                 ELSE Str(Null)])

\* updateCategory: one Category.findById of isDescendant(parentId,
\* categoryId), for the category the walk has reached: the walk ends without
\* a find when that category is missing or a root, ends with 400 when its
\* parent is the category being moved, and goes on to the parent otherwise
categoryUpdateCheck(i) ==
    /\ inflight[i].pc = "checkDescendant"
    /\ storeRead
    /\ LET call == inflight[i]
           child == Cast(call.node)
       IN IF child \notin DOMAIN categories \/ categories[child].parentId = Null
          THEN callMoves(i, "findParent")
          ELSE IF Str(categories[child].parentId) = call.categoryId
          THEN callAnswered(i, Response("updateCategory", 400))
          ELSE /\ inflight' = [inflight EXCEPT
                                 ![i].node = Str(categories[child].parentId)]
               /\ UNCHANGED resp

\* updateCategory: Category.findById(parentId)
categoryUpdateFindParent(i) ==
    /\ inflight[i].pc = "findParent"
    /\ storeRead
    /\ IF ~categoryExists(inflight[i].parentId)
       THEN callAnswered(i, Response("updateCategory", 400))
       ELSE callMoves(i, "saveCategory")

\* updateCategory: category.save() writes parentId when the value assigned
\* is not the one read; when the category is no longer stored the save
\* throws and the request answers 500
categoryUpdateSave(i) ==
    /\ inflight[i].pc = "saveCategory"
    /\ UNCHANGED <<users, products, orders, reviews, idCounter, strictQuery,
                   restocks>>
    /\ LET call == inflight[i]
           cid == Cast(call.categoryId)
           assigned == IF Cast(call.parentId) # Null THEN Cast(call.parentId)
                       ELSE IF call.clear THEN Null
                       ELSE call.loaded
       IN IF cid \notin DOMAIN categories
          THEN /\ UNCHANGED categories
               /\ callAnswered(i, Response("updateCategory", 500))
          ELSE /\ categories' =
                     IF assigned # call.loaded
                     THEN [categories EXCEPT ![cid].parentId = assigned]
                     ELSE categories
               /\ callAnswered(i, Response("updateCategory", 200))

\* ----------------------------------------------------------------- auth
\* the user with this Telegram id: User.findOne({ telegramId })
userByTelegramId(telegramId) ==
    {u \in DOMAIN users : users[u].telegramId = telegramId}

\* mutant: every login is an administrator's
shouldBeAdminAlways(telegramId) == TRUE

\* telegramId === ADMIN_TG_ID
shouldBeAdmin(telegramId) == telegramId = ADMIN_TG_ID

\* UserSchema validation on save: firstName is required
userValid(user) == user.firstName # ""

\* the response of a login that succeeded: the token is made from the
\* document the request holds
tokenIssued(uid, user) ==
    [Response("verifyTelegramAuth", 200) EXCEPT
       !.token = [id |-> uid, isAdmin |-> user.isAdmin]]

\* verifyTelegramAuth, one store call at a time: the tests of the body and
\* User.findOne({ telegramId }).  initData is Empty when the body has none,
\* else [signed, id, first_name]: signed says whether the hash is the HMAC of
\* the other fields under the bot token, id is user.id of the payload (0
\* when it has none), first_name is "" when it has none.  The server's
\* configuration (bot token, JWT secret, admin id) is taken to be complete.
\* A user found whose fields need no update is answered at once; the call
\* that waits for user.save() or User.create() is [pc, uid, loaded, user]:
\* the user's id and document as read (0 and the new document when none
\* was found) and the document with the fields assigned.
authFind(initData) ==
    /\ storeRead
    /\ IF initData = Empty
       THEN callAnswered(0, Response("verifyTelegramAuth", 400))
       ELSE IF ~initData.signed
       THEN callAnswered(0, Response("verifyTelegramAuth", 401))
       ELSE IF initData.id = 0
       THEN callAnswered(0, Response("verifyTelegramAuth", 400))
       ELSE LET telegramId == initData.id
                firstName == initData.first_name
                found == userByTelegramId(telegramId)
            IN IF found # {}
               THEN LET uid == CHOOSE u \in found : TRUE
                        user == [users[uid] EXCEPT
                                   !.firstName = firstName,
                                   !.isAdmin = shouldBeAdmin(users[uid].telegramId)]
                    IN IF user = users[uid]
                       THEN callAnswered(0, tokenIssued(uid, user))
                       ELSE callQueued(0, [pc |-> "saveUser", uid |-> uid,
                                        loaded |-> users[uid], user |-> user])
               ELSE LET user == [telegramId |-> telegramId,
                                 firstName |-> firstName,
                                 isAdmin |-> shouldBeAdmin(telegramId)]
                    IN callQueued(0, [pc |-> "createUser", uid |-> 0,
                                   loaded |-> user, user |-> user])

\* verifyTelegramAuth: user.save() validates the document and answers 400
\* when it fails; else it writes the paths assigned
authSave(i) ==
    /\ inflight[i].pc = "saveUser"
    /\ UNCHANGED <<categories, products, orders, reviews, idCounter, strictQuery,
                   restocks>>
    /\ LET call == inflight[i] IN
       IF ~userValid(call.user)
       THEN /\ UNCHANGED users
            /\ callAnswered(i, Response("verifyTelegramAuth", 400))
       ELSE /\ users' = [users EXCEPT ![call.uid] =
                           [f \in DOMAIN call.user |->
                              IF call.user[f] # call.loaded[f] THEN call.user[f]
                              ELSE users[call.uid][f]]]
            /\ callAnswered(i, tokenIssued(call.uid, call.user))

\* verifyTelegramAuth: User.create() validates the document and answers 400
\* when it fails; the unique index on telegramId refuses a second user of
\* the Telegram id, and the request answers 500
authCreate(i) ==
    /\ inflight[i].pc = "createUser"
    /\ UNCHANGED <<categories, products, orders, reviews, idCounter, strictQuery,
                   restocks>>
    /\ LET call == inflight[i]
           uid == Cardinality(DOMAIN users) + 1
       IN IF ~userValid(call.user)
          THEN /\ UNCHANGED users
               /\ callAnswered(i, Response("verifyTelegramAuth", 400))
          ELSE IF userByTelegramId(call.user.telegramId) # {}
          THEN /\ UNCHANGED users
               /\ callAnswered(i, Response("verifyTelegramAuth", 500))
          ELSE /\ users' = [u \in DOMAIN users \cup {uid} |->
                              IF u = uid THEN call.user ELSE users[u]]
               /\ callAnswered(i, tokenIssued(uid, call.user))

\* protect, as a status: auth is Empty when the request has no Bearer
\* header, else [signed, id]: signed says whether jwt.verify accepts the
\* token, id is the user id in its payload (the isAdmin of the payload is
\* never read).  0 stands for next().
protectResult(auth) ==
    IF auth = Empty THEN 401
    ELSE IF ~auth.signed THEN 401
    ELSE IF auth.id \notin DOMAIN users THEN 401
    ELSE 0

\* req.user as protect leaves it: the record User.findById returns
reqUser(auth) == [id |-> auth.id, isAdmin |-> users[auth.id].isAdmin]

\* protect: the tests of the header and the token, then User.findById.  req
\* is the request, [op, ...] with the parameters of its route.  A request
\* that passes waits for next() as [pc, user, req], user being req.user as it
\* was read: what runs after next() starts with the store call of the
\* handler, and other requests' store calls may come before it.
protect(auth, req) ==
    /\ storeRead
    /\ IF protectResult(auth) # 0
       THEN callAnswered(0, Response(req.op, protectResult(auth)))
       ELSE callQueued(0, [pc |-> "next", user |-> reqUser(auth), req |-> req])

\* mutant: the flag is not looked at
adminForAnyUser(user) == 0

\* admin, for the req.user protect left: 0 stands for next()
admin(user) == IF user.isAdmin THEN 0 ELSE 403

\* router.<method>(path, protect, handler): next() of protect for call i,
\* which is the start of the handler
protectedRoute(i, op, handler) ==
    /\ inflight[i].pc = "next"
    /\ inflight[i].req.op = op
    /\ handler

\* router.<method>(path, protect, admin, handler): next() of protect for call
\* i, which is admin and, when admin calls next(), the start of the handler
adminRoute(i, op, handler) ==
    /\ inflight[i].pc = "next"
    /\ inflight[i].req.op = op
    /\ IF admin(inflight[i].user) # 0
       THEN storeRead /\ callAnswered(i, Response(op, admin(inflight[i].user)))
       ELSE handler

\* mutant: the order is handed to any authenticated requester
getOrderByIdUnchecked(user, orderId) ==
    IF Cast(orderId) \notin 1..Len(orders)
    THEN Response("getOrderById", 404)
    ELSE [Response("getOrderById", 200) EXCEPT !.order = <<orders[Cast(orderId)]>>]

\* getOrderById for req.user = user; populate('user') leaves null for an
\* owner that is no stored user, and reading its _id throws
getOrderByIdResult(user, orderId) ==
    IF Cast(orderId) \notin 1..Len(orders)
    THEN Response("getOrderById", 404)
    ELSE LET order == orders[Cast(orderId)] IN
         IF user.isAdmin
         THEN [Response("getOrderById", 200) EXCEPT !.order = <<order>>]
         ELSE IF order.user \notin DOMAIN users
         THEN Response("getOrderById", 500)
         ELSE IF order.user # user.id
         THEN Response("getOrderById", 403)
         ELSE [Response("getOrderById", 200) EXCEPT !.order = <<order>>]

\* getOrderById: its one store call, Order.findById(orderId).populate('user')
getOrderById(at, user, orderId) ==
    storeRead /\ callAnswered(at, getOrderByIdResult(user, orderId))

\* getAllOrders: status is "" when the query has none
getAllOrdersResult(status) ==
    [Response("getAllOrders", 200) EXCEPT
       !.list = {o \in 1..Len(orders) : status = "" \/ orders[o].status = status}]

\* getAllOrders: its one store call, Order.find
getAllOrders(at, status) == storeRead /\ callAnswered(at, getAllOrdersResult(status))

\* getProductReviews: query is Empty or [productId], productId a request
\* string (Str(Null) for ?productId=); the handler answers every request and
\* never calls next()
getProductReviewsResult(query) ==
    IF ~truthyId(query, "productId")
    THEN [callsNext |-> FALSE, resp |-> Response("getProductReviews", 400)]
    ELSE [callsNext |-> FALSE,
          resp |-> [Response("getProductReviews", 200) EXCEPT
                      !.list = {r \in DOMAIN reviews :
                                  reviews[r].product = Cast(query.productId)}]]

getAllReviewsResult == [Response("getAllReviews", 200) EXCEPT !.list = DOMAIN reviews]

\* the second handler registered for GET /api/reviews.  Without a productId
\* it calls protect with a callback in the place of next: the callback drops
\* the error protect passes to it and calls admin, so getAllReviews runs for
\* an administrator, and for anyone else the error admin throws is caught by
\* no one and no response is sent.
reviewsSelectorResult(auth, query) ==
    IF truthyId(query, "productId") THEN getProductReviewsResult(query).resp
    ELSE IF protectResult(auth) = 0 /\ admin(reqUser(auth)) = 0
    THEN getAllReviewsResult
    ELSE NoResponse

\* GET /api/reviews: the handlers run in the order of their registration, the
\* next one only when the one before calls next()
getReviewsResult(auth, query) ==
    LET first == getProductReviewsResult(query) IN
    IF first.callsNext THEN reviewsSelectorResult(auth, query) ELSE first.resp

\* GET /api/reviews: the one store call, Review.find
getReviews(auth, query) == storeRead /\ callAnswered(0, getReviewsResult(auth, query))

\* ------------------------------------------------------- specifications

\* the store of a fresh deployment
Init ==
    /\ users = Empty
    /\ inflight = <<>>
    /\ categories = Empty
    /\ products = Empty
    /\ orders = <<>>
    /\ reviews = Empty
    /\ idCounter = [category |-> 0, product |-> 0, review |-> 0]
    /\ strictQuery \in BOOLEAN
    /\ restocks = <<>>
    /\ resp = NoResponse

\* a store as two logins, createCategory and createProduct leave it: the
\* administrator and a customer, one root category
\* holding product 1 and product 2
seedProduct(name, price, stock) ==
    [name |-> name, price |-> price, image |-> "", stock |-> stock,
     categoryId |-> 1, oldPrice |-> Null]

InitCatalog ==
    /\ users = [u \in UserIds |->
                 [telegramId |-> u, firstName |-> "n", isAdmin |-> shouldBeAdmin(u)]]
    /\ inflight = <<>>
    /\ categories = [c \in {1} |-> [parentId |-> Null]]
    /\ products = [p \in ProductIds |->
                     IF p = 1 THEN seedProduct("a", 1, MaxStock)
                     ELSE seedProduct("b", 2, 1)]
    /\ orders = <<>>
    /\ reviews = Empty
    /\ idCounter = [category |-> 1, product |-> 2, review |-> 0]
    /\ strictQuery \in BOOLEAN
    /\ restocks = <<>>
    /\ resp = NoResponse

\* createReview is no action of the order specifications, so one setting of
\* strictQuery is enough there
InitOrders == InitCatalog /\ strictQuery

\* request inputs
Lists(S) == {<<>>} \cup {<<a>> : a \in S} \cup {<<a, b>> : a, b \in S}
ItemProductIds == ReqIds({1}) \cup CanonIds({2, GhostProductId})
\* an id the lookup does not find is asked for once
Items ==
    {item \in [productId : ItemProductIds, quantity : 1..MaxQty] :
       item.productId \in CanonIds(ProductIds) \/ item.quantity = 1}
ItemLists == Lists(Items)
OrderReqIds == CanonIds(1..MaxAdminOrders)
StatusInputs == validStatuses \cup {"", "shipped"}

\* a specification stores at most cap orders: a request that would store one
\* more is left out
Room(cap, userId, items) ==
    createOrderResult(userId, items).resp.code = 201 => Len(orders) < cap

\* order placement alone, one request after the other: a request starts when
\* none is in flight
NextOrders ==
    \/ \E items \in ItemLists :
          inflight = <<>> /\ Room(MaxOrders, 1, items) /\ orderFind(0, 1, items)
    \/ \E i \in 1..Len(inflight) : orderDecrement(i)
    \/ \E i \in 1..Len(inflight) : orderSave(i)

SpecOrders == InitOrders /\ [][NextOrders]_vars

\* order placement with quantities of any sign; a request that would lift a
\* stock above MaxStock + MaxQty is left out
AnyQuantities == (0 - 1)..MaxQty
AnyQuantityLists ==
    Lists([productId : CanonIds({1, GhostProductId}), quantity : AnyQuantities])
StockRoom(userId, items) ==
    \A p \in DOMAIN products :
        createOrderResult(userId, items).products[p].stock <= MaxStock + MaxQty

NextQuantities ==
    \/ \E items \in AnyQuantityLists :
          /\ inflight = <<>>
          /\ Room(MaxOrders, 1, items)
          /\ StockRoom(1, items)
          /\ orderFind(0, 1, items)
    \/ \E i \in 1..Len(inflight) : orderDecrement(i)
    \/ \E i \in 1..Len(inflight) : orderSave(i)

SpecQuantities == InitOrders /\ [][NextQuantities]_vars

\* order placement and the admin's status updates, one request after the
\* other
Item(pid, quantity) == [productId |-> Str(pid), quantity |-> quantity]
StatusCarts ==
    {<<Item(1, q)>> : q \in 1..MaxQty}
        \cup {<<Item(1, 1), Item(2, 1)>>, <<Item(1, 1), Item(1, 1)>>}

NextStatus ==
    \/ \E items \in StatusCarts :
          /\ inflight = <<>>
          /\ Room(MaxAdminOrders, 1, items)
          /\ orderFind(0, 1, items)
    \/ \E i \in 1..Len(inflight) : orderDecrement(i)
    \/ \E i \in 1..Len(inflight) : orderSave(i)
    \/ \E o \in OrderReqIds, st \in StatusInputs :
          inflight = <<>> /\ statusFind(0, o, st)
    \/ \E i \in 1..Len(inflight) : statusRestock(i)
    \/ \E i \in 1..Len(inflight) : statusSave(i)

SpecStatus == InitOrders /\ [][NextStatus]_vars

\* orders and status changes whose refund loop meets store failures: any
\* findByIdAndUpdate of the loop may throw
RefundCarts ==
    {<<Item(1, 1), Item(2, 1)>>, <<Item(1, 1), Item(1, 1)>>, <<Item(1, MaxQty)>>,
     <<Item(2, 1)>>}
RefundStatuses == {"refunded", "completed"}

NextRefund ==
    \/ \E items \in RefundCarts :
          /\ inflight = <<>>
          /\ Room(MaxAdminOrders, 1, items)
          /\ orderFind(0, 1, items)
    \/ \E i \in 1..Len(inflight) : orderDecrement(i)
    \/ \E i \in 1..Len(inflight) : orderSave(i)
    \/ \E o \in OrderReqIds, st \in RefundStatuses :
          inflight = <<>> /\ statusFind(0, o, st)
    \/ \E i \in 1..Len(inflight) : statusRestock(i)
    \/ \E i \in 1..Len(inflight) : statusRestockFails(i)
    \/ \E i \in 1..Len(inflight) : statusSave(i)

SpecRefund == InitOrders /\ [][NextRefund]_vars

\* an order's life among the admin's product edits and the reviews
\* the last cart names product 1 twice and leaves its stock below 0
FrameCarts ==
    {<<Item(2, 1), Item(1, 1)>>, <<Item(1, MaxStock), Item(1, MaxStock)>>}
ProductEdits == {[name |-> "c", price |-> 3, image |-> "img"]}
ReviewBodies == [productId : CanonIds({1}), orderId : OrderReqIds, rating : {5}]

NextFrame ==
    \/ \E items \in FrameCarts :
          /\ inflight = <<>>
          /\ Room(MaxAdminOrders, 1, items)
          /\ orderFind(0, 1, items)
    \/ \E i \in 1..Len(inflight) : orderDecrement(i)
    \/ \E i \in 1..Len(inflight) : orderSave(i)
    \/ \E o \in OrderReqIds, st \in {"completed", "refunded"} :
          inflight = <<>> /\ statusFind(0, o, st)
    \/ \E i \in 1..Len(inflight) : statusRestock(i)
    \/ \E i \in 1..Len(inflight) : statusSave(i)
    \/ \E body \in ProductEdits :
          inflight = <<>> /\ productUpdateFind(0, Str(1), body)
    \/ \E i \in 1..Len(inflight) : productUpdateSave(i)
    \/ \E p \in CanonIds(ProductIds) : inflight = <<>> /\ productDeleteFind(0, p)
    \/ \E i \in 1..Len(inflight) : productDeleteFindOrders(i)
    \/ \E i \in 1..Len(inflight) : productDeleteReviews(i)
    \/ \E i \in 1..Len(inflight) : productDeleteOne(i)
    \/ \E u \in UserIds, body \in ReviewBodies :
          inflight = <<>> /\ reviewFindProduct(0, u, body)
    \/ \E i \in 1..Len(inflight) : reviewFindOrder(i)
    \/ \E i \in 1..Len(inflight) : reviewFindExisting(i)
    \/ \E i \in 1..Len(inflight) : reviewSave(i)
    \/ \E i \in 1..Len(inflight) : reviewSaveOrder(i)
    \/ \E r \in CanonIds(1..MaxAdminOrders) :
          inflight = <<>> /\ reviewDeleteFind(0, r)
    \/ \E i \in 1..Len(inflight) : reviewDeleteFindOrder(i)
    \/ \E i \in 1..Len(inflight) : reviewDeleteOne(i)

SpecFrame == InitCatalog /\ [][NextFrame]_vars

\* orders among the admin's deletions of products and categories
CascadeStatuses == {"processing", "completed", "refunded"}

NextCascade ==
    \/ \E items \in FrameCarts :
          /\ inflight = <<>>
          /\ Room(MaxAdminOrders, 1, items)
          /\ orderFind(0, 1, items)
    \/ \E i \in 1..Len(inflight) : orderDecrement(i)
    \/ \E i \in 1..Len(inflight) : orderSave(i)
    \/ \E o \in OrderReqIds, st \in CascadeStatuses :
          inflight = <<>> /\ statusFind(0, o, st)
    \/ \E i \in 1..Len(inflight) : statusRestock(i)
    \/ \E i \in 1..Len(inflight) : statusSave(i)
    \/ \E p \in CanonIds(ProductIds) : inflight = <<>> /\ productDeleteFind(0, p)
    \/ \E i \in 1..Len(inflight) : productDeleteFindOrders(i)
    \/ \E i \in 1..Len(inflight) : productDeleteReviews(i)
    \/ \E i \in 1..Len(inflight) : productDeleteOne(i)
    \/ \E c \in CanonIds({1}) : inflight = <<>> /\ categoryDeleteFind(0, c)
    \/ \E i \in 1..Len(inflight) : categoryDeleteWalk(i)
    \/ \E i \in 1..Len(inflight) : categoryDeleteProducts(i)
    \/ \E i \in 1..Len(inflight) : categoryDeleteCategories(i)

SpecCascade == InitOrders /\ [][NextCascade]_vars

\* customers' orders, completed by the admin, and the reviews given for them
ReviewCarts == {<<Item(1, 1)>>, <<Item(1, 1), Item(2, 1)>>}
ReviewOrderIds == CanonIds(1..MaxOrders)
Ratings == {0, 5, 6}
ReviewInputs ==
    [productId : CanonIds(ProductIds), orderId : ReviewOrderIds, rating : Ratings]
        \cup {[productId |-> Str(GhostProductId), orderId |-> Str(1), rating |-> 5],
              [productId |-> Str(1), rating |-> 5],
              [productId |-> Str(Null), orderId |-> Str(1), rating |-> 5],
              [productId |-> Str(1), orderId |-> Str(Null), rating |-> 5]}

NextReviews ==
    \/ \E items \in ReviewCarts :
          inflight = <<>> /\ Room(MaxOrders, 1, items) /\ orderFind(0, 1, items)
    \/ \E i \in 1..Len(inflight) : orderDecrement(i)
    \/ \E i \in 1..Len(inflight) : orderSave(i)
    \/ \E o \in ReviewOrderIds : inflight = <<>> /\ statusFind(0, o, "completed")
    \/ \E i \in 1..Len(inflight) : statusSave(i)
    \/ \E u \in UserIds, body \in ReviewInputs :
          inflight = <<>> /\ reviewFindProduct(0, u, body)
    \/ \E i \in 1..Len(inflight) : reviewFindOrder(i)
    \/ \E i \in 1..Len(inflight) : reviewFindExisting(i)
    \/ \E i \in 1..Len(inflight) : reviewSave(i)
    \/ \E i \in 1..Len(inflight) : reviewSaveOrder(i)
    \/ \E r \in CanonIds(1..MaxOrders) : inflight = <<>> /\ reviewDeleteFind(0, r)
    \/ \E i \in 1..Len(inflight) : reviewDeleteFindOrder(i)
    \/ \E i \in 1..Len(inflight) : reviewDeleteOne(i)

SpecReviews == InitCatalog /\ [][NextReviews]_vars

\* requests for reviews of one order's products, running at the same time;
\* the order is placed and completed before
RaceCarts == {<<Item(2, 1), Item(1, 1)>>}
RaceInputs == [productId : CanonIds(ProductIds), orderId : OrderReqIds, rating : {5}]

NextRace ==
    \/ \E items \in RaceCarts :
          /\ inflight = <<>>
          /\ Room(MaxAdminOrders, 1, items)
          /\ orderFind(0, 1, items)
    \/ \E i \in 1..Len(inflight) : orderDecrement(i)
    \/ \E i \in 1..Len(inflight) : orderSave(i)
    \/ \E o \in OrderReqIds : inflight = <<>> /\ statusFind(0, o, "completed")
    \/ \E i \in 1..Len(inflight) : statusSave(i)
    \/ \E body \in RaceInputs :
          Len(inflight) < MaxCalls /\ reviewFindProduct(0, 1, body)
    \/ \E i \in 1..Len(inflight) : reviewFindOrder(i)
    \/ \E i \in 1..Len(inflight) : reviewFindExisting(i)
    \/ \E i \in 1..Len(inflight) : reviewSave(i)
    \/ \E i \in 1..Len(inflight) : reviewSaveOrder(i)

SpecRace == InitCatalog /\ [][NextRace]_vars

\* createOrder requests running concurrently
OrderRaceCarts ==
    {<<Item(2, 1)>>, <<Item(1, 1)>>, <<Item(1, MaxQty)>>, <<Item(1, 1), Item(2, 1)>>}

\* a request that passes the validation is taken while the orders stored and
\* the requests in flight leave room for one more order
OrderRoom(items) ==
    (Len(items) # 0 /\ checkItems(items, 1, <<>>, 0).code = 0)
        => Len(inflight) < MaxCalls /\ Len(orders) + Len(inflight) < MaxOrders

NextOrderRace ==
    \/ \E u \in UserIds, items \in OrderRaceCarts :
          OrderRoom(items) /\ orderFind(0, u, items)
    \/ \E i \in 1..Len(inflight) : orderDecrement(i)
    \/ \E i \in 1..Len(inflight) : orderSave(i)

SpecOrderRace == InitOrders /\ [][NextOrderRace]_vars

\* refunds of one order running concurrently
RefundRaceCarts == {<<Item(1, 1)>>, <<Item(1, 1), Item(2, 1)>>, <<Item(1, MaxQty)>>}
RefundRaceStatuses == {"refunded", ""}

NextRefundRace ==
    \/ \E items \in RefundRaceCarts :
          /\ inflight = <<>>
          /\ Room(MaxAdminOrders, 1, items)
          /\ orderFind(0, 1, items)
    \/ \E i \in 1..Len(inflight) : orderDecrement(i)
    \/ \E i \in 1..Len(inflight) : orderSave(i)
    \/ \E o \in OrderReqIds, st \in RefundRaceStatuses :
          Len(inflight) < MaxCalls /\ statusFind(0, o, st)
    \/ \E i \in 1..Len(inflight) : statusRestock(i)
    \/ \E i \in 1..Len(inflight) : statusSave(i)

SpecRefundRace == InitOrders /\ [][NextRefundRace]_vars

\* logins.  A store may hold users written under an earlier configuration
\* of the admin id, so a stored flag need not agree with the present one.
TelegramIds == 1..MaxTelegramId
FirstNames == {"", "n", "m"}
InitDatas ==
    {Empty} \cup [signed : BOOLEAN, id : {0} \cup TelegramIds, first_name : FirstNames]

InitAuth ==
    /\ users \in {Empty} \cup
                 {[u \in {1} |-> [telegramId |-> t, firstName |-> "n", isAdmin |-> a]] :
                    t \in TelegramIds, a \in BOOLEAN}
    /\ inflight = <<>>
    /\ categories = Empty
    /\ products = Empty
    /\ orders = <<>>
    /\ reviews = Empty
    /\ idCounter = [category |-> 0, product |-> 0, review |-> 0]
    /\ strictQuery = TRUE
    /\ restocks = <<>>
    /\ resp = NoResponse

\* one login after the other
NextAuth ==
    \/ \E initData \in InitDatas : inflight = <<>> /\ authFind(initData)
    \/ \E i \in 1..Len(inflight) : authSave(i)
    \/ \E i \in 1..Len(inflight) : authCreate(i)

SpecAuth == InitAuth /\ [][NextAuth]_vars

\* the routes, each behind its middleware.  Requests come without a token,
\* with a token jwt.verify refuses, or with the token of user 1 (the
\* administrator), of user 2 or of a user that is not stored.  User 2 may
\* have been stored as an administrator under an earlier configuration of
\* the admin id: the flag stays until the user logs in again.
GhostUserId == Cardinality(UserIds) + 1
AuthInputs ==
    {Empty, [signed |-> FALSE, id |-> 1]}
        \cup [signed : {TRUE}, id : UserIds \cup {GhostUserId}]

StoredUsers ==
    {[u \in UserIds |->
        [telegramId |-> u, firstName |-> "n", isAdmin |-> shouldBeAdmin(u) \/ a[u]]] :
       a \in [UserIds -> BOOLEAN]}

InitRoutes ==
    /\ users \in StoredUsers
    /\ inflight = <<>>
    /\ categories = [c \in {1} |-> [parentId |-> Null]]
    /\ products = [p \in {1} |-> seedProduct("a", 1, MaxStock)]
    /\ orders = <<>>
    /\ reviews = Empty
    /\ idCounter = [category |-> 1, product |-> 1, review |-> 0]
    /\ strictQuery \in BOOLEAN
    /\ restocks = <<>>
    /\ resp = NoResponse

\* the store of InitRoutes with every flag as the configuration has it, for
\* the specifications that take no request to a route
InitShop ==
    /\ InitRoutes
    /\ strictQuery
    /\ \A u \in UserIds : users[u].isAdmin = shouldBeAdmin(users[u].telegramId)

\* a store as InitRoutes after user 2 ordered product 1, an administrator
\* completed the order and user 2 reviewed the product
InitAdmin ==
    /\ users \in StoredUsers
    /\ inflight = <<>>
    /\ categories = [c \in {1} |-> [parentId |-> Null]]
    /\ products = [p \in {1} |-> seedProduct("a", 1, MaxStock - 1)]
    /\ orders = <<[newOrder(2, <<orderItem(1, seedProduct("a", 1, MaxStock),
                                           Item(1, 1))>>, 1)
                     EXCEPT !.status = "completed", !.reviewSubmitted = TRUE]>>
    /\ reviews = [r \in {1} |-> [user |-> 2, product |-> 1, order |-> 1, rating |-> 5]]
    /\ idCounter = [category |-> 1, product |-> 1, review |-> 1]
    /\ strictQuery = TRUE
    /\ restocks = <<0>>
    /\ resp = NoResponse

RouteCart == <<Item(1, 1)>>
RouteReview == [productId |-> Str(1), orderId |-> Str(1), rating |-> 5]
RouteProduct == [name |-> "a", price |-> 1, categoryId |-> Str(1)]
RouteOrderIds == CanonIds(1..(MaxAdminOrders + 1))
ReviewQueries == {Empty, [productId |-> Str(1)], [productId |-> Str(Null)]}

\* the logins that come while the routes are used: of the users that are no
\* administrators
RouteLogins ==
    {[signed |-> TRUE, id |-> t, first_name |-> "n"] :
       t \in {u \in UserIds : ~shouldBeAdmin(u)}}

\* no request to a route is in flight (logins may be)
RouteIdle ==
    \A i \in 1..Len(inflight) : inflight[i].pc \in {"saveUser", "createUser"}

\* no login is in flight
LoginIdle ==
    \A i \in 1..Len(inflight) : inflight[i].pc \notin {"saveUser", "createUser"}

\* the requests to the routes registered with protect and admin
AdminRequests ==
    {[op |-> "createCategory", body |-> [name |-> "a"]],
     [op |-> "updateCategory", categoryId |-> Str(2),
      body |-> [parentId |-> Str(1)]],
     [op |-> "deleteCategory", categoryId |-> Str(2)],
     [op |-> "createProduct", body |-> RouteProduct],
     [op |-> "deleteProduct", productId |-> Str(2)],
     [op |-> "updateOrderStatus", orderId |-> Str(1), status |-> "refunded"],
     [op |-> "getAllOrders", status |-> ""],
     [op |-> "deleteReview", reviewId |-> Str(1)]}
        \cup {[op |-> "updateProduct", productId |-> Str(1), body |-> body] :
                body \in ProductEdits}

\* a request that would store one more category, product or order than the
\* specification holds is left out
RouteRoom(req) ==
    /\ req.op = "createCategory" => idCounter.category < MaxCategories
    /\ req.op = "createProduct" => idCounter.product < MaxProducts
    /\ req.op = "createOrder" => Room(MaxAdminOrders, 1, req.items)

\* the routes registered with protect and admin: next() of protect for
\* call i
adminRequest(i) ==
    LET req == inflight[i].req IN
    \/ adminRoute(i, "createCategory", categoryCreateFind(i, req.body))
    \/ adminRoute(i, "updateCategory",
                  categoryUpdateFind(i, req.categoryId, req.body))
    \/ adminRoute(i, "deleteCategory", categoryDeleteFind(i, req.categoryId))
    \/ adminRoute(i, "createProduct", productFindCategory(i, req.body))
    \/ adminRoute(i, "updateProduct",
                  productUpdateFind(i, req.productId, req.body))
    \/ adminRoute(i, "deleteProduct", productDeleteFind(i, req.productId))
    \/ adminRoute(i, "updateOrderStatus", statusFind(i, req.orderId, req.status))
    \/ adminRoute(i, "getAllOrders", getAllOrders(i, req.status))
    \/ adminRoute(i, "deleteReview", reviewDeleteFind(i, req.reviewId))

\* one request to a route at a time and one login at a time; the login
\* comes at any time, between the store calls of the request too
NextAdmin ==
    \/ \E auth \in AuthInputs, req \in AdminRequests :
          /\ RouteIdle
          /\ RouteRoom(req)
          /\ protect(auth, req)
    \/ \E i \in 1..Len(inflight) : adminRequest(i)
    \/ \E i \in 1..Len(inflight) : categoryUpdateCheck(i)
    \/ \E i \in 1..Len(inflight) : categoryUpdateFindParent(i)
    \/ \E i \in 1..Len(inflight) : categoryUpdateSave(i)
    \/ \E i \in 1..Len(inflight) : categoryDeleteWalk(i)
    \/ \E i \in 1..Len(inflight) : categoryDeleteProducts(i)
    \/ \E i \in 1..Len(inflight) : categoryDeleteCategories(i)
    \/ \E i \in 1..Len(inflight) : productSave(i)
    \/ \E i \in 1..Len(inflight) : productUpdateSave(i)
    \/ \E i \in 1..Len(inflight) : productDeleteFindOrders(i)
    \/ \E i \in 1..Len(inflight) : productDeleteReviews(i)
    \/ \E i \in 1..Len(inflight) : productDeleteOne(i)
    \/ \E i \in 1..Len(inflight) : reviewDeleteFindOrder(i)
    \/ \E i \in 1..Len(inflight) : reviewDeleteOne(i)
    \/ \E i \in 1..Len(inflight) : statusRestock(i)
    \/ \E i \in 1..Len(inflight) : statusSave(i)
    \/ \E initData \in RouteLogins : LoginIdle /\ authFind(initData)
    \/ \E i \in 1..Len(inflight) : authSave(i)

SpecAdmin == InitAdmin /\ [][NextAdmin]_vars

\* what customers may ask for: orders, one order, reviews
AccessRequests ==
    {[op |-> "createOrder", items |-> RouteCart],
     [op |-> "createReview", body |-> RouteReview]}
        \cup {[op |-> "getOrderById", orderId |-> o] : o \in RouteOrderIds}
        \cup {[op |-> "updateOrderStatus", orderId |-> o, status |-> st] :
                o \in OrderReqIds, st \in {"processing", "completed"}}

\* as NextAdmin: one request to a route at a time, a login at any time
NextAccess ==
    \/ \E auth \in AuthInputs, req \in AccessRequests :
          /\ RouteIdle
          /\ RouteRoom(req)
          /\ protect(auth, req)
    \/ \E i \in 1..Len(inflight) :
          protectedRoute(i, "createOrder",
                         orderFind(i, inflight[i].user.id, inflight[i].req.items))
    \/ \E i \in 1..Len(inflight) : orderDecrement(i)
    \/ \E i \in 1..Len(inflight) : orderSave(i)
    \/ \E i \in 1..Len(inflight) :
          protectedRoute(i, "getOrderById",
                         getOrderById(i, inflight[i].user, inflight[i].req.orderId))
    \/ \E i \in 1..Len(inflight) :
          adminRoute(i, "updateOrderStatus",
                     statusFind(i, inflight[i].req.orderId, inflight[i].req.status))
    \/ \E i \in 1..Len(inflight) : statusSave(i)
    \/ \E i \in 1..Len(inflight) :
          protectedRoute(i, "createReview",
                         reviewFindProduct(i, inflight[i].user.id,
                                           inflight[i].req.body))
    \/ \E i \in 1..Len(inflight) : reviewFindOrder(i)
    \/ \E i \in 1..Len(inflight) : reviewFindExisting(i)
    \/ \E i \in 1..Len(inflight) : reviewSave(i)
    \/ \E i \in 1..Len(inflight) : reviewSaveOrder(i)
    \/ \E auth \in AuthInputs, query \in ReviewQueries : getReviews(auth, query)
    \/ \E initData \in RouteLogins : LoginIdle /\ authFind(initData)
    \/ \E i \in 1..Len(inflight) : authSave(i)

SpecAccess == InitRoutes /\ [][NextAccess]_vars

\* the catalog, from the empty store
CategoryReqIds == CanonIds(1..MaxCategories) \cup ReqIds({1})
ParentInputs == {Empty} \cup {[parentId |-> s] : s \in CategoryReqIds \cup {Str(Null)}}
CategoryBodies == {[name |-> "a"] @@ b : b \in ParentInputs} \cup {Empty}

\* prices and old prices of the products created and repriced
Prices == (0 - 1)..MaxPrice
PriceBodies ==
    {[name |-> "c", categoryId |-> Str(1), price |-> pr] : pr \in Prices}
        \cup {[name |-> "c", categoryId |-> Str(1), price |-> pr, oldPrice |-> old] :
                 pr \in Prices, old \in Prices}
PriceEdits ==
    {Empty} \cup {[price |-> pr] : pr \in Prices}
        \cup {[oldPrice |-> old] : old \in Prices}
        \cup {[price |-> pr, oldPrice |-> old] : pr \in Prices, old \in Prices}

\* products created and repriced, one request after the other
NextPrices ==
    \/ \E body \in PriceBodies :
          /\ inflight = <<>>
          /\ idCounter.product < MaxProducts
          /\ productFindCategory(0, body)
    \/ \E i \in 1..Len(inflight) : productSave(i)
    \/ \E pid \in CanonIds(1..MaxProducts), body \in PriceEdits :
          inflight = <<>> /\ productUpdateFind(0, pid, body)
    \/ \E i \in 1..Len(inflight) : productUpdateSave(i)

SpecPrices == InitShop /\ [][NextPrices]_vars

\* products created and moved while categories are deleted
RaceCategoryIds == CanonIds(1..(MaxCategories - 1))
RaceProducts == {[name |-> "c", price |-> 1, categoryId |-> c] : c \in RaceCategoryIds}
RaceEdits == {[price |-> MaxPrice]} \cup {[categoryId |-> c] : c \in RaceCategoryIds}

NextCatalogRace ==
    \/ idCounter.category < MaxCategories - 1 /\ categoryCreateFind(0, [name |-> "a"])
    \/ \E body \in RaceProducts :
          /\ Len(inflight) < MaxCalls
          /\ idCounter.product + Len(inflight) < MaxProducts
          /\ productFindCategory(0, body)
    \/ \E i \in 1..Len(inflight) : productSave(i)
    \/ \E body \in RaceEdits :
          Len(inflight) < MaxCalls /\ productUpdateFind(0, Str(1), body)
    \/ \E i \in 1..Len(inflight) : productUpdateFindCategory(i)
    \/ \E i \in 1..Len(inflight) : productUpdateSave(i)
    \/ \E c \in RaceCategoryIds :
          Len(inflight) < MaxCalls /\ categoryDeleteFind(0, c)
    \/ \E i \in 1..Len(inflight) : categoryDeleteWalk(i)
    \/ \E i \in 1..Len(inflight) : categoryDeleteProducts(i)
    \/ \E i \in 1..Len(inflight) : categoryDeleteCategories(i)

SpecCatalogRace == InitShop /\ [][NextCatalogRace]_vars

\* categories moved concurrently, every id spelled as stored
MoveInputs == {Empty} \cup {[parentId |-> s] : s \in RaceCategoryIds \cup {Str(Null)}}

NextCategoryRace ==
    \/ idCounter.category < MaxCategories - 1 /\ categoryCreateFind(0, [name |-> "a"])
    \/ \E c \in RaceCategoryIds, body \in MoveInputs :
          Len(inflight) < MaxCalls /\ categoryUpdateFind(0, c, body)
    \/ \E i \in 1..Len(inflight) : categoryUpdateCheck(i)
    \/ \E i \in 1..Len(inflight) : categoryUpdateFindParent(i)
    \/ \E i \in 1..Len(inflight) : categoryUpdateSave(i)

SpecCategoryRace == InitShop /\ [][NextCategoryRace]_vars

\* products go to the first and the last category
CatalogProducts ==
    {[name |-> "a", price |-> 1, categoryId |-> c] : c \in CanonIds({1, MaxCategories})}

\* a request that passes createCategory's tests is taken while fewer than
\* MaxCategories categories were created
CategoryRoom(body) ==
    (/\ Field(body, "name", "") # ""
     /\ truthyParent(body) => categoryExists(body.parentId))
        => idCounter.category < MaxCategories

\* the admin's requests, one after the other
Next ==
    \/ \E body \in CategoryBodies :
          inflight = <<>> /\ CategoryRoom(body) /\ categoryCreateFind(0, body)
    \/ \E i \in 1..Len(inflight) : categoryCreateSave(i)
    \/ \E c \in CategoryReqIds, body \in ParentInputs :
          inflight = <<>> /\ categoryUpdateFind(0, c, body)
    \/ \E i \in 1..Len(inflight) : categoryUpdateCheck(i)
    \/ \E i \in 1..Len(inflight) : categoryUpdateFindParent(i)
    \/ \E i \in 1..Len(inflight) : categoryUpdateSave(i)
    \/ \E c \in CategoryReqIds : inflight = <<>> /\ categoryDeleteFind(0, c)
    \/ \E i \in 1..Len(inflight) : categoryDeleteWalk(i)
    \/ \E i \in 1..Len(inflight) : categoryDeleteProducts(i)
    \/ \E i \in 1..Len(inflight) : categoryDeleteCategories(i)
    \/ \E body \in CatalogProducts :
          /\ inflight = <<>>
          /\ idCounter.product < MaxProducts
          /\ productFindCategory(0, body)
    \/ \E i \in 1..Len(inflight) : productSave(i)

InitStore == Init /\ strictQuery

Spec == InitStore /\ [][Next]_vars

\* =============================================================== claims
\* what the claims are stated with (none of it models code)

\* the quantity a request's items order of product p, over all its items
RECURSIVE Ordered(_, _, _)
Ordered(items, p, k) ==
    IF k > Len(items) THEN 0
    ELSE (IF Cast(items[k].productId) = p THEN items[k].quantity ELSE 0)
         + Ordered(items, p, k + 1)

\* item k names a stored product, whatever the spelling of the id
NamesProduct(items, k) == Cast(items[k].productId) \in DOMAIN products

\* item k asks for more than its product has
Short(items, k) ==
    /\ NamesProduct(items, k)
    /\ items[k].quantity > products[Cast(items[k].productId)].stock

\* item k is found by the handler's lookup: the product is stored and the id
\* is spelled as the store spells it
Resolved(items, k) == NamesProduct(items, k) /\ items[k].productId.canon

Failing(items, k) == ~Resolved(items, k) \/ Short(items, k)

FirstFailing(items) ==
    CHOOSE k \in 1..Len(items) :
        Failing(items, k) /\ \A j \in 1..(k - 1) : ~Failing(items, j)

\* C1: after any sequence of createOrder requests, each with a non-empty list
\* of items of quantity >= 1 in which a product may occur more than once,
\* every product's stock is >= 0.
C1_StockNeverNegative == \A p \in DOMAIN products : products[p].stock >= 0

\* C2 as stated: a createOrder request holding any item whose quantity exceeds
\* its product's stock is answered 400 with that product's id and available
\* stock, stores no order and leaves every stock as it was.
C2_ShortItemAnswered400 ==
    [][\A items \in ItemLists :
         ((\E k \in 1..Len(items) : Short(items, k)) /\ orderFind(0, 1, items))
         => /\ resp'.code = 400
            /\ \E k \in 1..Len(items) :
                  /\ Short(items, k)
                  /\ resp'.productId = Cast(items[k].productId)
                  /\ resp'.availableStock = products[resp'.productId].stock
            /\ orders' = orders
            /\ products' = products]_vars

\* C2 amended: such a request stores no order and leaves every stock as it
\* was; the answer is decided by the first item, in request order, that is
\* unresolved or short: 400 with that product's id and available stock when
\* it is a resolved short item, 404 when it is unresolved.
C2_ShortItemRejected ==
    [][\A items \in ItemLists :
         ((\E k \in 1..Len(items) : Short(items, k)) /\ orderFind(0, 1, items))
         => LET k == FirstFailing(items) IN
            /\ orders' = orders
            /\ products' = products
            /\ IF Resolved(items, k)
               THEN /\ resp'.code = 400
                    /\ resp'.productId = Cast(items[k].productId)
                    /\ resp'.availableStock = products[resp'.productId].stock
               ELSE resp'.code = 404]_vars

\* an order is stored, product 1 is sold out, and a request was answered 400
\* for product 2 of which 1 is left
C2_Witness ==
    /\ resp.op = "createOrder" /\ resp.code = 400
    /\ resp.productId = 2 /\ resp.availableStock = 1
    /\ Len(orders) = 1
    /\ products[1].stock = 0

\* the sum of price * quantity over a request's items, at the live prices
RECURSIVE LiveTotal(_, _)
LiveTotal(items, k) ==
    IF k > Len(items) THEN 0
    ELSE products[Cast(items[k].productId)].price * items[k].quantity
         + LiveTotal(items, k + 1)

\* the quantity an order's snapshots hold of product p
RECURSIVE OrderedIn(_, _, _)
OrderedIn(orderItems, p, k) ==
    IF k > Len(orderItems) THEN 0
    ELSE (IF orderItems[k].productId = p THEN orderItems[k].quantity ELSE 0)
         + OrderedIn(orderItems, p, k + 1)

\* C3: when createOrder succeeds, each product's stock has gone down by
\* exactly the quantity ordered of it, and the stored order has status
\* paid-pending, reviewSubmitted false, one snapshot per item and totalAmount
\* equal to the sum of price (at that instant) * quantity over its items.
\* Step by step, for requests run one after the other: the validation builds
\* one snapshot per item, at the prices read, and their total; a decrement
\* touches the stock of its item's product alone; and the save that answers
\* 201 finds every product read lower by what the snapshots hold of it, and
\* stores the snapshots and the total in a paid-pending order.
C3_SuccessfulOrder ==
    [][/\ \A items \in ItemLists :
             (Len(inflight') > Len(inflight) /\ orderFind(0, 1, items))
             => LET call == inflight'[Len(inflight')] IN
                /\ call.totalAmount = LiveTotal(items, 1)
                /\ Len(call.orderItems) = Len(items)
                /\ \A k \in 1..Len(items) :
                      LET snapshot == call.orderItems[k] IN
                      /\ snapshot.productId = Cast(items[k].productId)
                      /\ snapshot.quantity = items[k].quantity
                      /\ snapshot.price = products[snapshot.productId].price
                      /\ snapshot.name = products[snapshot.productId].name
       /\ \A i \in 1..Len(inflight) :
             (inflight[i].pc = "decrementStock" /\ orderDecrement(i))
             => \A p \in DOMAIN products :
                   p # inflight[i].orderItems[inflight[i].k].productId
                   => products'[p] = products[p]
       /\ \A i \in 1..Len(inflight) :
             (resp'.code = 201 /\ orderSave(i))
             => LET call == inflight[i]
                    order == orders'[Len(orders')]
                IN /\ \A p \in DOMAIN call.productMap :
                         products'[p].stock
                             = call.productMap[p].stock
                                 - OrderedIn(call.orderItems, p, 1)
                   /\ Len(orders') = Len(orders) + 1
                   /\ order.status = "paid-pending"
                   /\ order.reviewSubmitted = FALSE
                   /\ order.items = call.orderItems
                   /\ order.totalAmount = call.totalAmount]_vars

\* an order of two products was just stored: one of product 2 (price 2) and
\* two of product 1 (price 1), 4 in all
C3_Witness ==
    /\ resp.op = "createOrder" /\ resp.code = 201
    /\ \E o \in 1..Len(orders) :
          /\ Len(orders[o].items) = 2
          /\ orders[o].items[1].productId = 2
          /\ orders[o].items[2].productId = 1
          /\ orders[o].items[2].quantity = 2
          /\ orders[o].totalAmount = 4
    /\ products[2].stock = 0

\* C4: once an order is stored, its items (productId, name, price, quantity,
\* image) and its totalAmount never change, whatever updateProduct,
\* deleteProduct, updateOrderStatus, createReview or deleteReview do later.
C4_OrderSnapshotFrozen ==
    [][/\ Len(orders') >= Len(orders)
       /\ \A o \in 1..Len(orders) :
             /\ orders'[o].items = orders[o].items
             /\ orders'[o].totalAmount = orders[o].totalAmount]_vars

\* an order of product 2 and product 1, made at price 1 for product 1, after
\* product 1 was renamed and repriced, product 2 deleted, the order completed,
\* reviewed, the review deleted and the order refunded
C4_Witness ==
    \E o \in 1..Len(orders) :
        /\ Len(orders[o].items) = 2
        /\ orders[o].items[2].productId = 1
        /\ orders[o].items[2].price = 1 /\ orders[o].items[2].name = "a"
        /\ orders[o].totalAmount = 3
        /\ 1 \in DOMAIN products
        /\ products[1].price = 3 /\ products[1].name = "c"
        /\ 2 \notin DOMAIN products
        /\ orders[o].status = "refunded"
        /\ orders[o].reviewSubmitted
        /\ reviews = Empty

\* C5: updateOrderStatus(order, refunded) on an order in status processing
\* adds each item's quantity to its product's stock exactly once, and the
\* same request on an order already refunded changes no product's stock.
\* Step by step, for requests run one after the other: the request that read
\* processing goes through the order's items from the first, each restock
\* adds its item's quantity to its item's product and changes nothing else,
\* and the status is saved after the last; the request that read refunded
\* goes to the save at once; neither the read nor the save changes a stock.
C5_RefundRestocksOnce ==
    [][/\ \A o \in OrderReqIds :
             (Cast(o) \in 1..Len(orders) /\ statusFind(0, o, "refunded"))
             => LET order == orders[Cast(o)]
                    call == inflight'[Len(inflight')]
                IN /\ products' = products
                   /\ Len(inflight') = Len(inflight) + 1
                   /\ order.status = "processing" =>
                         /\ call.pc = "restock"
                         /\ call.items = order.items
                         /\ call.k = 1
                   /\ order.status = "refunded" => call.pc = "saveStatus"
       /\ \A i \in 1..Len(inflight) :
             (inflight[i].pc = "restock" /\ statusRestock(i))
             => LET call == inflight[i]
                    item == call.items[call.k]
                IN /\ DOMAIN products' = DOMAIN products
                   /\ \A p \in DOMAIN products :
                         /\ products'[p].stock
                              = products[p].stock
                                  + (IF p = item.productId THEN item.quantity
                                     ELSE 0)
                         /\ [products'[p] EXCEPT !.stock = 0]
                              = [products[p] EXCEPT !.stock = 0]
                   /\ inflight'[i].k = call.k + 1
                   /\ inflight'[i].pc = "saveStatus" <=> call.k = Len(call.items)
       /\ \A i \in 1..Len(inflight) :
             (inflight[i].pc = "saveStatus" /\ statusSave(i))
             => /\ products' = products
                /\ inflight[i].status = "refunded"
                      => orders'[inflight[i].orderId].status = "refunded"]_vars

\* an order holding product 1 twice was refunded, once, and was answered so
C5_Witness ==
    /\ resp.op = "updateOrderStatus" /\ resp.code = 200
    /\ Len(orders) = 1
    /\ orders[1].status = "refunded"
    /\ Len(orders[1].items) = 2
    /\ orders[1].items[1].productId = 1 /\ orders[1].items[2].productId = 1
    /\ restocks[1] = 1
    /\ products[1].stock = MaxStock

\* the transitions of the state machine the specification draws
MachineTransitions ==
    {<<"paid-pending", "processing">>, <<"processing", "completed">>}
        \cup {<<old, "refunded">> : old \in statusEnum \ {"completed", "refunded"}}

\* C6 as stated: an order's status changes only along paid-pending ->
\* processing, processing -> completed and non-terminal -> refunded; a request
\* for any other transition leaves the status unchanged.
C6_OnlyMachineTransitions ==
    [][\A o \in 1..Len(orders) :
         orders'[o].status # orders[o].status
         => <<orders[o].status, orders'[o].status>> \in MachineTransitions]_vars

\* C6 amended: an order's status changes only by an updateOrderStatus request
\* that names one of the five enumerated statuses, and such a request for a
\* stored order, run with no other request in flight, sets the status to the
\* one it names whatever the current status; a request naming any other
\* status is answered 400 and leaves the status unchanged.
C6_StatusSetAsRequested ==
    [][/\ \A o \in OrderReqIds, st \in StatusInputs :
             (Cast(o) \in 1..Len(orders) /\ statusFind(0, o, st))
             => /\ orders' = orders
                /\ IF st \in statusEnum
                   THEN /\ Len(inflight') = Len(inflight) + 1
                        /\ inflight'[Len(inflight')].orderId = Cast(o)
                        /\ inflight'[Len(inflight')].status = st
                   ELSE inflight' = inflight /\ resp'.code = 400
       /\ \A i \in 1..Len(inflight) :
             (inflight[i].pc = "saveStatus" /\ statusSave(i))
             => /\ orders'[inflight[i].orderId].status = inflight[i].status
                /\ resp'.code = 200
       /\ \A o \in 1..Len(orders) :
             orders'[o].status # orders[o].status
             => /\ resp'.op = "updateOrderStatus" /\ resp'.code = 200
                /\ orders'[o].status \in statusEnum]_vars

\* a refunded order was set back to processing
C6_Witness ==
    /\ resp.op = "updateOrderStatus" /\ resp.code = 200
    /\ Len(orders) = 1
    /\ orders[1].status = "processing"
    /\ restocks[1] = 1

\* C7: over any sequence of updateOrderStatus calls on one order, the total
\* quantity added back to a product's stock for an item of that order never
\* exceeds the quantity the item ordered.
C7_NeverRestockedTwice ==
    \A o \in 1..Len(orders) : \A k \in 1..Len(orders[o].items) :
        restocks[o] * orders[o].items[k].quantity <= orders[o].items[k].quantity

\* the categories met by following parentId pointers up from c, at most fuel
\* steps
RECURSIVE AncestorsWithin(_, _)
AncestorsWithin(c, fuel) ==
    IF fuel = 0 \/ c \notin DOMAIN categories THEN {}
    ELSE IF categories[c].parentId = Null THEN {}
    ELSE {categories[c].parentId}
             \cup AncestorsWithin(categories[c].parentId, fuel - 1)

Ancestors(c) == AncestorsWithin(c, Cardinality(DOMAIN categories) + 1)

\* the transitive descendants of c: the categories with c among their ancestors
Descendants(c) == {d \in DOMAIN categories : c \in Ancestors(d)}

\* every parent chain ends at a root, meets no category twice and holds only
\* stored categories
IsForest ==
    \A c \in DOMAIN categories :
        c \notin Ancestors(c) /\ Ancestors(c) \subseteq DOMAIN categories

\* the new parent a request names is the category itself or one of its
\* transitive descendants
ClosesCycle(categoryId, parentId) ==
    /\ categoryExists(categoryId)
    /\ Cast(parentId) \in {Cast(categoryId)} \cup Descendants(Cast(categoryId))

\* call i is an updateCategory request
UpdateCategoryCall(i) ==
    inflight[i].pc \in {"checkDescendant", "findParent", "saveCategory"}

\* a step of the updateCategory request i
updateCategoryStep(i) ==
    categoryUpdateCheck(i) \/ categoryUpdateFindParent(i) \/ categoryUpdateSave(i)

\* C8: updateCategory(C, parentId = P) is answered 400 and leaves the
\* categories as they were whenever P is C itself or a transitive descendant
\* of C.  Step by step, for requests run one after the other: no step of
\* such a request changes a category, and the step that answers it answers
\* 400.
C8_CycleRejected ==
    [][/\ \A c \in CategoryReqIds, parent \in CategoryReqIds :
             (ClosesCycle(c, parent) /\ categoryUpdateFind(0, c, [parentId |-> parent]))
             => /\ categories' = categories
                /\ inflight' = inflight => resp'.code = 400
       /\ \A i \in 1..Len(inflight) :
             (/\ UpdateCategoryCall(i)
              /\ ClosesCycle(inflight[i].categoryId, inflight[i].parentId)
              /\ updateCategoryStep(i))
             => /\ categories' = categories
                /\ Len(inflight') < Len(inflight) => resp'.code = 400]_vars

\* C9: after any sequence of createCategory, updateCategory and deleteCategory
\* requests, following parentId pointers from any stored category reaches a
\* root without meeting a category twice, and every id on the way is a stored
\* category.
C9_ParentChainsAcyclic == IsForest

\* C10: a completed deleteCategory(C) on a category forest removes exactly C
\* and its transitive descendants and exactly the products whose categoryId is
\* one of them; every other category and product is left as it was.
\* Step by step, for requests run one after the other: the walk changes
\* nothing and ends with C and its descendants collected;
\* Product.deleteMany removes exactly their products and counts them;
\* Category.deleteMany removes exactly these categories, leaves no product
\* of theirs behind, and the request answers 200 with the two counts.
C10_CascadeExact ==
    [][\A i \in 1..Len(inflight) :
         LET call == inflight[i]
             gone == {call.categoryId} \cup Descendants(call.categoryId)
         IN /\ (IsForest /\ categoryDeleteWalk(i))
               => /\ categories' = categories /\ products' = products
                  /\ inflight'[i].pc = "deleteProducts"
                        => inflight'[i].ids = gone
            /\ (IsForest /\ categoryDeleteProducts(i))
               => /\ categories' = categories
                  /\ DOMAIN products'
                       = {p \in DOMAIN products : products[p].categoryId \notin gone}
                  /\ \A p \in DOMAIN products' : products'[p] = products[p]
                  /\ inflight'[i].deletedProducts
                       = Cardinality(DOMAIN products \ DOMAIN products')
            /\ (IsForest /\ categoryDeleteCategories(i))
               => /\ resp'.op = "deleteCategory" /\ resp'.code = 200
                  /\ DOMAIN categories' = DOMAIN categories \ gone
                  /\ \A x \in DOMAIN categories' : categories'[x] = categories[x]
                  /\ products' = products
                  /\ \A p \in DOMAIN products : products[p].categoryId \notin gone
                  /\ resp'.categories = Cardinality(gone) - 1
                  /\ resp'.products = call.deletedProducts]_vars

\* a category went with one descendant and one product, and a category and a
\* product of another tree are left
C10_Witness ==
    /\ resp.op = "deleteCategory" /\ resp.code = 200
    /\ resp.categories = 1 /\ resp.products = 1
    /\ Cardinality(DOMAIN categories) = 1
    /\ Cardinality(DOMAIN products) = 1
    /\ \A p \in DOMAIN products : products[p].categoryId \in DOMAIN categories

\* product p is an item of an order that is neither completed nor refunded
ReferencedByOpenOrder(p) ==
    \E o \in 1..Len(orders) :
        /\ orders[o].status \notin {"completed", "refunded"}
        /\ \E k \in 1..Len(orders[o].items) : orders[o].items[k].productId = p

\* C11: no operation (deleteProduct, the cascade of deleteCategory) removes a
\* product from the store while an item of an order that is neither completed
\* nor refunded references it.
C11_ReferencedProductKept ==
    [][\A p \in DOMAIN products :
         ReferencedByOpenOrder(p) => p \in DOMAIN products']_vars

\* the request names an order and a product of the store
NamesOrderAndProduct(body) ==
    /\ Has(body, "orderId") /\ Cast(body.orderId) \in 1..Len(orders)
    /\ Has(body, "productId") /\ Cast(body.productId) \in DOMAIN products

\* the order a review request names is the requester's, is completed and
\* holds the product the request names
Entitled(u, body) ==
    /\ NamesOrderAndProduct(body)
    /\ orders[Cast(body.orderId)].user = u
    /\ orders[Cast(body.orderId)].status = "completed"
    /\ \E k \in 1..Len(orders[Cast(body.orderId)].items) :
          orders[Cast(body.orderId)].items[k].productId = Cast(body.productId)

\* call i is a createReview request
ReviewCall(i) ==
    inflight[i].pc \in {"findOrder", "findExisting", "saveReview", "saveOrder"}

\* the body of the createReview request a call holds
ReviewBody(call) ==
    [productId |-> Str(call.productId), orderId |-> call.orderId,
     rating |-> call.rating]

\* a step of the createReview request i after its first
createReviewStep(i) ==
    \/ reviewFindOrder(i) \/ reviewFindExisting(i)
    \/ reviewSave(i) \/ reviewSaveOrder(i)

\* the step stores no review and touches no order
NothingReviewed == reviews' = reviews /\ orders' = orders

\* the step of request i answers it
AnswersCall(i) == Len(inflight') < Len(inflight)

\* C12: createReview stores a Review only if the order it names exists, is
\* owned by the requesting user, is completed and holds the product; any other
\* request (one for another user's order included) fails, stores no Review
\* and leaves reviewSubmitted as it was.  Step by step, for requests run one
\* after the other: no step of such a request stores a review or touches an
\* order, and the step that answers it does not answer 201.
C12_ReviewOnlyByOwner ==
    [][/\ \A u \in UserIds, body \in ReviewInputs :
             (~Entitled(u, body) /\ reviewFindProduct(0, u, body))
             => /\ NothingReviewed
                /\ inflight' = inflight => resp'.code # 201
       /\ \A i \in 1..Len(inflight) :
             (/\ ReviewCall(i)
              /\ ~Entitled(inflight[i].userId, ReviewBody(inflight[i]))
              /\ createReviewStep(i))
             => /\ NothingReviewed
                /\ AnswersCall(i) => resp'.code # 201]_vars

\* the request names a stored product and a stored order that is not
\* completed
NamesOpenOrder(body) ==
    /\ NamesOrderAndProduct(body)
    /\ orders[Cast(body.orderId)].status # "completed"

\* C13 as claimed: createReview for a stored product and an order that is not
\* completed fails with the not-eligible error, never the validation error,
\* whatever the rating (outside 1..5 included), and stores no Review.
C13_NotEligibleWhateverRating ==
    [][/\ \A u \in UserIds, body \in ReviewInputs :
             (NamesOpenOrder(body) /\ reviewFindProduct(0, u, body))
             => /\ reviews' = reviews
                /\ inflight' = inflight => resp'.error = "not-eligible"
       /\ \A i \in 1..Len(inflight) :
             (/\ ReviewCall(i)
              /\ NamesOpenOrder(ReviewBody(inflight[i]))
              /\ createReviewStep(i))
             => /\ reviews' = reviews
                /\ AnswersCall(i) /\ resp'.error = "not-eligible"]_vars

\* C13 amended: such a request stores no Review and touches no order; it
\* fails with the not-eligible error (403) when its rating is within 1..5 and
\* with the validation error (400) when the rating is missing, 0 or outside
\* 1..5.  Step by step, for requests run one after the other: the first step
\* answers 400 for such a rating and reads the product otherwise, and the
\* step that reads the order answers 403.
C13_NotEligibleAfterValidation ==
    [][/\ \A u \in UserIds, body \in ReviewInputs :
             (NamesOpenOrder(body) /\ reviewFindProduct(0, u, body))
             => /\ NothingReviewed
                /\ IF Field(body, "rating", 0) \in 1..5
                   THEN inflight' # inflight /\ resp' = resp
                   ELSE /\ inflight' = inflight
                        /\ resp'.code = 400 /\ resp'.error = "validation"
       /\ \A i \in 1..Len(inflight) :
             (/\ ReviewCall(i)
              /\ NamesOpenOrder(ReviewBody(inflight[i]))
              /\ createReviewStep(i))
             => /\ NothingReviewed
                /\ AnswersCall(i)
                /\ resp'.code = 403 /\ resp'.error = "not-eligible"]_vars

\* a review request was refused as not eligible while every order id names an
\* order that is not completed and every product id but the ghost's a product
C13_Witness ==
    /\ resp.op = "createReview" /\ resp.error = "not-eligible"
    /\ Len(orders) = MaxOrders
    /\ \A o \in 1..Len(orders) : orders[o].status # "completed"
    /\ ProductIds \subseteq DOMAIN products

\* user u has a review of product p given through an order other than o2
ReviewedThroughAnother(u, p, o2) ==
    \E r \in DOMAIN reviews :
        reviews[r].user = u /\ reviews[r].product = p /\ reviews[r].order # o2

\* the request names a completed order, not reviewed yet, that holds the
\* product, and the requester reviewed the product through another order
SecondReview(u, body) ==
    /\ NamesOrderAndProduct(body)
    /\ orders[Cast(body.orderId)].status = "completed"
    /\ ~orders[Cast(body.orderId)].reviewSubmitted
    /\ \E k \in 1..Len(orders[Cast(body.orderId)].items) :
          orders[Cast(body.orderId)].items[k].productId = Cast(body.productId)
    /\ ReviewedThroughAnother(u, Cast(body.productId), Cast(body.orderId))

\* C14 as claimed: when user u has a Review of product P through order O1, a
\* createReview by u for P through another completed order O2 holding P fails
\* with the duplicate-review error, stores no Review and leaves
\* O2.reviewSubmitted false.
C14_SecondReviewIsDuplicate ==
    [][/\ \A u \in UserIds, body \in ReviewInputs :
             (SecondReview(u, body) /\ reviewFindProduct(0, u, body))
             => /\ reviews' = reviews
                /\ ~orders'[Cast(body.orderId)].reviewSubmitted
                /\ inflight' = inflight => resp'.error = "duplicate"
       /\ \A i \in 1..Len(inflight) :
             (/\ ReviewCall(i)
              /\ SecondReview(inflight[i].userId, ReviewBody(inflight[i]))
              /\ createReviewStep(i))
             => /\ reviews' = reviews
                /\ ~orders'[Cast(inflight[i].orderId)].reviewSubmitted
                /\ AnswersCall(i) => resp'.error = "duplicate"]_vars

\* C14 amended: the same, for a request whose rating is within 1..5 (the
\* rating is validated before the store is read).  Step by step, for
\* requests run one after the other: the request goes through the reads of
\* the product and the order and is answered by the read of the reviews.
C14_SecondReviewWithRatingIsDuplicate ==
    [][/\ \A u \in UserIds, body \in ReviewInputs :
             (/\ SecondReview(u, body)
              /\ Field(body, "rating", 0) \in 1..5
              /\ reviewFindProduct(0, u, body))
             => /\ NothingReviewed
                /\ inflight' # inflight /\ resp' = resp
       /\ \A i \in 1..Len(inflight) :
             (/\ ReviewCall(i)
              /\ SecondReview(inflight[i].userId, ReviewBody(inflight[i]))
              /\ createReviewStep(i))
             => /\ NothingReviewed
                /\ ~orders'[Cast(inflight[i].orderId)].reviewSubmitted
                /\ IF AnswersCall(i)
                   THEN resp'.code = 400 /\ resp'.error = "duplicate"
                   ELSE inflight'[i].pc = "findExisting"]_vars

\* a request was refused as a duplicate, and a completed order without a
\* review is there beside the reviewed one
C14_Witness ==
    /\ resp.op = "createReview" /\ resp.error = "duplicate"
    /\ \E o1, o2 \in 1..Len(orders) :
          /\ o1 # o2
          /\ orders[o2].status = "completed" /\ ~orders[o2].reviewSubmitted
          /\ \E r \in DOMAIN reviews :
                /\ reviews[r].order = o1
                /\ \E k \in 1..Len(orders[o2].items) :
                      orders[o2].items[k].productId = reviews[r].product

\* the reviews that reference order o
ReviewsOf(o) == {r \in DOMAIN reviews : reviews[r].order = o}

\* C15: in every reachable state, also when createReview requests for
\* different products of one order run at the same time and interleave at
\* their store calls, at most one Review references any given order.
C15_OneReviewPerOrder ==
    \A o \in 1..Len(orders) : Cardinality(ReviewsOf(o)) <= 1

\* the request carries a token that verifies and names a stored user
Authenticated(auth) ==
    auth # Empty /\ auth.signed /\ auth.id \in DOMAIN users

\* ... whose stored record has the admin flag
LiveAdmin(auth) == Authenticated(auth) /\ users[auth.id].isAdmin

\* the request protect let through waits with the user as the store holds it
LoadsStoredUser(auth) ==
    /\ Len(inflight') = Len(inflight) + 1
    /\ inflight'[Len(inflight')].user = [id |-> auth.id,
                                         isAdmin |-> users[auth.id].isAdmin]

\* C16: getOrderById hands the order to its owner and to a requester with
\* isAdmin true; for a stored order and any other authenticated requester it
\* answers 403 without order data; for an order that is not stored it answers
\* 404 whoever asks.  The requester is req.user, the record protect read
\* from the store for this request; logins may come between that read and the
\* handler.
C16_OrderForOwnerOrAdmin ==
    [][/\ \A auth \in AuthInputs, req \in AccessRequests :
             (Authenticated(auth) /\ protect(auth, req)) => LoadsStoredUser(auth)
       /\ \A i \in 1..Len(inflight) :
             protectedRoute(i, "getOrderById",
                            getOrderById(i, inflight[i].user, inflight[i].req.orderId))
             => LET user == inflight[i].user
                    o == inflight[i].req.orderId
                IN /\ UNCHANGED <<users, categories, products, orders, reviews>>
                   /\ AnswersCall(i)
                   /\ IF Cast(o) \notin 1..Len(orders)
                      THEN resp'.code = 404 /\ resp'.order = <<>>
                      ELSE IF orders[Cast(o)].user = user.id \/ user.isAdmin
                      THEN resp'.code = 200 /\ resp'.order = <<orders[Cast(o)]>>
                      ELSE resp'.code = 403 /\ resp'.order = <<>>]_vars

\* a user that is no administrator asked for another user's order and was
\* refused
C16_Witness ==
    /\ resp.op = "getOrderById" /\ resp.code = 403 /\ resp.order = <<>>
    /\ \E o \in 1..Len(orders), u \in DOMAIN users :
          orders[o].user # u /\ ~users[u].isAdmin

\* C17: the category, product, order-status, order-listing and
\* review-deletion routes take effect only for a requester whose User record
\* in the store has isAdmin true; for any other requester they change no
\* category, product, order or review, start no handler and list nothing,
\* and for an authenticated one they answer 403.  The record is the one
\* protect reads from the store for this request, whatever the token says:
\* protect itself changes nothing and answers 401 or passes the stored
\* record on, and what follows it starts the handler only when that record
\* has isAdmin true.  Logins may come between the two.
C17_AdminOnly ==
    [][/\ \A auth \in AuthInputs, req \in AdminRequests :
             protect(auth, req)
             => /\ UNCHANGED <<categories, products, orders, reviews>>
                /\ IF Authenticated(auth) THEN LoadsStoredUser(auth)
                   ELSE /\ inflight' = inflight
                        /\ resp'.code = 401 /\ resp'.list = {}
       /\ \A i \in 1..Len(inflight) :
             (adminRequest(i) /\ ~inflight[i].user.isAdmin)
             => /\ UNCHANGED <<categories, products, orders, reviews>>
                /\ AnswersCall(i)
                /\ resp'.code = 403 /\ resp'.list = {}]_vars

\* the request of a user that is no administrator to delete a review was
\* refused and the review is still there
C17_Witness ==
    /\ resp.op = "deleteReview" /\ resp.code = 403
    /\ 1 \in DOMAIN reviews
    /\ \E u \in DOMAIN users : ~users[u].isAdmin

\* C19: GET /api/reviews without a productId, sent by an authenticated admin,
\* returns all reviews; with a productId it returns that product's reviews,
\* whoever asks.
C19_ReviewListing ==
    [][\A auth \in AuthInputs, query \in ReviewQueries :
         getReviews(auth, query)
         => IF truthyId(query, "productId")
            THEN /\ resp'.code = 200
                 /\ resp'.list = {r \in DOMAIN reviews :
                                    reviews[r].product = Cast(query.productId)}
            ELSE LiveAdmin(auth)
                 => resp'.code = 200 /\ resp'.list = DOMAIN reviews]_vars

\* the step leaves exactly one user with Telegram id T: a new record when none
\* was stored, the stored one otherwise, every other user as it was; the
\* user's isAdmin says whether T is the configured admin id, and the token
\* carries the user's id and that flag
LoggedIn(T) ==
    LET before == {u \in DOMAIN users : users[u].telegramId = T}
        after == {u \in DOMAIN users' : users'[u].telegramId = T}
    IN /\ Cardinality(after) = 1
       /\ before # {} => after = before /\ DOMAIN users' = DOMAIN users
       /\ before = {} => DOMAIN users' = DOMAIN users \cup after
       /\ \A u \in DOMAIN users \ after : users'[u] = users[u]
       /\ \A u \in after :
             /\ users'[u].isAdmin <=> (T = ADMIN_TG_ID)
             /\ resp'.token = [id |-> u, isAdmin |-> users'[u].isAdmin]

\* C20: after a successful verifyTelegramAuth for Telegram id T exactly one
\* User has telegramId T (a new record on the first login, the same record on
\* later ones, every other user left alone), its isAdmin is true exactly when
\* T is the configured admin id, and the token carries that user's id and
\* that flag.  Step by step, for logins run one after the other: this holds
\* for whichever step answers 200, and the lookup writes no user.
C20_OneUserPerTelegramId ==
    [][/\ \A initData \in InitDatas \ {Empty} :
             authFind(initData)
             => /\ users' = users
                /\ (inflight' = inflight /\ resp'.code = 200)
                      => LoggedIn(initData.id)
       /\ \A i \in 1..Len(inflight) :
             ((authSave(i) \/ authCreate(i)) /\ resp'.code = 200)
             => LoggedIn(inflight[i].user.telegramId)]_vars

\* the administrator logged in after a customer did, and holds an admin token
C20_Witness ==
    /\ resp.op = "verifyTelegramAuth" /\ resp.code = 200
    /\ resp.token.isAdmin
    /\ Cardinality(DOMAIN users) >= 2
    /\ users[resp.token.id].telegramId = ADMIN_TG_ID

\* the first item the handler's lookup does not find
FirstUnresolved(items) ==
    CHOOSE k \in 1..Len(items) :
        ~Resolved(items, k) /\ \A j \in 1..(k - 1) : Resolved(items, j)

\* C18 as claimed: a createOrder request with any item whose product id does
\* not resolve to a stored product is answered 404 whatever its other items
\* are (an earlier item short of stock included), stores no order and changes
\* no stock.
C18_UnresolvedAnswered404 ==
    [][\A items \in ItemLists :
         ((\E k \in 1..Len(items) : ~Resolved(items, k)) /\ orderFind(0, 1, items))
         => /\ resp'.code = 404
            /\ orders' = orders
            /\ products' = products]_vars

\* C18 amended: such a request stores no order and changes no stock; it is
\* answered 404, unless an item listed before the first unresolved one asks
\* for more than its product's stock: then it is answered 400 with the product
\* id and available stock of the first such item.
C18_UnresolvedRejected ==
    [][\A items \in ItemLists :
         ((\E k \in 1..Len(items) : ~Resolved(items, k)) /\ orderFind(0, 1, items))
         => LET shortBefore == {j \in 1..(FirstUnresolved(items) - 1) :
                                  Short(items, j)}
            IN /\ orders' = orders
               /\ products' = products
               /\ IF shortBefore = {} THEN resp'.code = 404
                  ELSE LET j == CHOOSE i \in shortBefore :
                                    \A h \in shortBefore : i <= h
                       IN /\ resp'.code = 400
                          /\ resp'.productId = Cast(items[j].productId)
                          /\ resp'.availableStock
                               = products[Cast(items[j].productId)].stock]_vars

\* a request was answered 404 while product 1 is sold out and two orders are
\* stored
C18_Witness ==
    /\ resp.op = "createOrder" /\ resp.code = 404
    /\ Len(orders) = MaxOrders
    /\ products[1].stock = 0

\* a review request that names a stored order
NamesOrder(body) ==
    Has(body, "orderId") /\ Cast(body.orderId) \in 1..Len(orders)

\* the request names a stored order whose reviewSubmitted is true
NamesReviewedOrder(body) ==
    NamesOrder(body) /\ orders[Cast(body.orderId)].reviewSubmitted

\* C21: once an order's reviewSubmitted flag is true it stays true over every
\* step (deleteReview removes the Review and leaves the flag), and every
\* later createReview through that order is refused and stores nothing:
\* for requests run one after the other, its first step or the step that
\* reads the order answers it, and not with 201.
C21_ReviewSubmittedSticks ==
    [][/\ \A o \in 1..Len(orders) :
             orders[o].reviewSubmitted
                 => o \in 1..Len(orders') /\ orders'[o].reviewSubmitted
       /\ \A u \in UserIds, body \in ReviewInputs :
             (NamesReviewedOrder(body) /\ reviewFindProduct(0, u, body))
             => /\ NothingReviewed
                /\ inflight' = inflight => resp'.code # 201
       /\ \A i \in 1..Len(inflight) :
             (/\ ReviewCall(i)
              /\ NamesReviewedOrder(ReviewBody(inflight[i]))
              /\ createReviewStep(i))
             => /\ NothingReviewed
                /\ AnswersCall(i) /\ resp'.code # 201]_vars

\* the Review of a reviewed order was deleted, the order's flag is still set
\* and a later review through that order was refused as already submitted
C21_Witness ==
    /\ resp.op = "createReview" /\ resp.error = "already-submitted"
    /\ \E o \in 1..Len(orders) :
          /\ orders[o].reviewSubmitted
          /\ \A r \in DOMAIN reviews : reviews[r].order # o
    /\ reviews = Empty

\* the quantity of product pid in the items from position k on whose
\* position is not in failed
RECURSIVE QuantityOutside(_, _, _, _)
QuantityOutside(orderItems, k, pid, failed) ==
    IF k > Len(orderItems) THEN 0
    ELSE (IF orderItems[k].productId = pid /\ k \notin failed
          THEN orderItems[k].quantity ELSE 0)
         + QuantityOutside(orderItems, k + 1, pid, failed)

\* C22: when an order moves into refunded and the stock increment of an item
\* fails, the remaining items are still restocked, the order is stored as
\* refunded and the request answers with success.  Step by step: a failing
\* increment answers nothing, writes nothing and leaves the loop at the next
\* item; an increment that works adds its item's quantity; and the status is
\* saved, with answer 200, after the loop went through every item.
C22_RefundSurvivesFailedIncrement ==
    [][\A i \in 1..Len(inflight) :
         LET call == inflight[i] IN
         /\ (call.pc = "restock" /\ statusRestockFails(i))
            => /\ products' = products /\ orders' = orders /\ resp' = resp
               /\ Len(inflight') = Len(inflight)
               /\ inflight'[i].k = call.k + 1
               /\ inflight'[i].pc
                    = IF call.k < Len(call.items) THEN "restock" ELSE "saveStatus"
         /\ (call.pc = "restock" /\ statusRestock(i))
            => /\ inflight'[i].k = call.k + 1
               /\ \A p \in DOMAIN products :
                     products'[p].stock
                         = products[p].stock
                             + QuantityOutside(call.items, 1, p,
                                               1..Len(call.items) \ {call.k})
         /\ (call.pc = "saveStatus" /\ call.status = "refunded"
                /\ call.oldStatus # "refunded" /\ statusSave(i))
            => /\ call.k = Len(call.items) + 1
               /\ resp'.op = "updateOrderStatus" /\ resp'.code = 200
               /\ orders'[call.orderId].status = "refunded"]_vars

\* the only order, of one unit of each product, is refunded with success:
\* product 1 was not restocked (its increment failed), product 2 was
C22_Witness ==
    /\ resp.op = "updateOrderStatus" /\ resp.code = 200
    /\ Len(orders) = 1 /\ orders[1].status = "refunded"
    /\ Len(orders[1].items) = 2
    /\ orders[1].items[1].productId = 1 /\ orders[1].items[2].productId = 2
    /\ products[1].stock = MaxStock - 1
    /\ products[2].stock = 1
    /\ restocks[1] = 1

\* the quantity of product p the decrement loops of the requests in flight
\* have taken from the stock so far
RECURSIVE TakenInFlight(_, _)
TakenInFlight(p, i) ==
    IF i > Len(inflight) THEN 0
    ELSE LET call == inflight[i]
             done == IF call.pc = "saveNewOrder" THEN {} ELSE call.k..Len(call.orderItems)
         IN QuantityOutside(call.orderItems, 1, p, done) + TakenInFlight(p, i + 1)

\* the quantity of product p the stored orders from position o on hold
RECURSIVE TakenByOrders(_, _)
TakenByOrders(p, o) ==
    IF o > Len(orders) THEN 0
    ELSE OrderedIn(orders[o].items, p, 1) + TakenByOrders(p, o + 1)

\* the units of product p there are: in stock, in stored orders, or taken by
\* a request in flight
Units(p) == products[p].stock + TakenByOrders(p, 1) + TakenInFlight(p, 1)

\* C23: createOrder requests running concurrently check the stock when they
\* read the products and decrement it later without looking again: every
\* request that passed its check takes its full quantity (no unit is lost or
\* made up over any step), so two requests that passed the check against the
\* same stock both decrement and can leave the stock negative.
C23_ConcurrentOrdersBothDecrement ==
    [][\A p \in DOMAIN products :
         /\ Units(p)' = Units(p)
         /\ \A i \in 1..Len(inflight) :
               (/\ inflight[i].pc = "decrementStock"
                /\ inflight[i].orderItems[inflight[i].k].productId = p
                /\ orderDecrement(i))
               => products'[p].stock
                     = products[p].stock
                         - inflight[i].orderItems[inflight[i].k].quantity]_vars

\* product 2 started with one unit; two stored orders hold one unit of it
\* each and its stock is -1
C23_Witness ==
    /\ Len(orders) = 2
    /\ \A o \in 1..2 : /\ Len(orders[o].items) = 1
                        /\ orders[o].items[1].productId = 2
                        /\ orders[o].items[1].quantity = 1
    /\ products[2].stock = -1
    /\ inflight = <<>>

\* C24: after any sequence of createProduct and updateProduct requests with
\* numeric price and oldPrice (an update carrying any subset of the two),
\* every stored product has oldPrice null or oldPrice above its price.
\* The requests run one after the other.
C24_OldPriceAbovePrice ==
    \A p \in DOMAIN products :
        products[p].oldPrice = Null \/ products[p].oldPrice > products[p].price

\* an update was accepted, and both the seeded product and a created one
\* hold an old price, the created one a price raised to just below it
C24_Witness ==
    /\ resp.op = "updateProduct" /\ resp.code = 200
    /\ DOMAIN products = 1..MaxProducts
    /\ \A p \in DOMAIN products : products[p].oldPrice # Null
    /\ products[MaxProducts].price = MaxPrice - 1
    /\ products[MaxProducts].oldPrice = MaxPrice

\* C25: in every reachable state, createProduct or updateProduct running
\* concurrently with deleteCategory included, the categoryId of every stored
\* product is the id of a stored category.
C25_ProductCategoryExists ==
    \A p \in DOMAIN products : products[p].categoryId \in DOMAIN categories

\* C26: createReview succeeds (a Review is stored and the order's
\* reviewSubmitted becomes true) whenever the product exists, the rating is
\* within 1..5, the order exists, is the requesting user's, is completed,
\* holds the product, has reviewSubmitted false, and the user has no earlier
\* Review of the product.  Step by step, for requests run one after the
\* other: no step of such a request answers with an error; review.save()
\* stores the Review and order.save() sets the flag and answers 201.
C26_EntitledReviewSucceeds ==
    [][/\ \A u \in UserIds, body \in ReviewInputs :
             (/\ Entitled(u, body)
              /\ Field(body, "rating", 0) \in 1..5
              /\ reviewFindProduct(0, u, body))
             => inflight' # inflight
       /\ \A i \in 1..Len(inflight) :
             LET call == inflight[i]
                 fresh == /\ ~orders[Cast(call.orderId)].reviewSubmitted
                          /\ ~existingReview(call.productId, call.userId)
             IN (ReviewCall(i) /\ Entitled(call.userId, ReviewBody(call)))
                => /\ (fresh /\ reviewFindOrder(i))
                      => ~AnswersCall(i) /\ inflight'[i].pc = "findExisting"
                   /\ (fresh /\ reviewFindExisting(i))
                      => ~AnswersCall(i) /\ inflight'[i].pc = "saveReview"
                   /\ (fresh /\ reviewSave(i))
                      => /\ ~AnswersCall(i) /\ inflight'[i].pc = "saveOrder"
                         /\ \E r \in DOMAIN reviews' \ DOMAIN reviews :
                               /\ reviews'[r].user = call.userId
                               /\ reviews'[r].product = call.productId
                               /\ reviews'[r].order = Cast(call.orderId)
                   /\ reviewSaveOrder(i)
                      => /\ resp'.code = 201
                         /\ orders'[Cast(call.orderId)].reviewSubmitted]_vars

\* C27: whenever createOrder answers with an error status (400, 404 or 500),
\* whatever the items' quantities (zero and negative included), every
\* product's stock is what it was before the request and no order has been
\* stored.  The requests run one after the other, so the products a request
\* read hold the stock before the request.
C27_FailedOrderChangesNothing ==
    [][/\ \A items \in AnyQuantityLists :
             (inflight' = inflight /\ orderFind(0, 1, items))
             => products' = products /\ orders' = orders
       /\ \A i \in 1..Len(inflight) :
             (resp'.code \in {400, 404, 500} /\ orderSave(i))
             => /\ orders' = orders
                /\ \A p \in DOMAIN inflight[i].productMap :
                      products'[p].stock = inflight[i].productMap[p].stock]_vars

\* the quantity of product p the orders from position o on hold whose status
\* is not refunded
RECURSIVE HeldByOpenOrders(_, _)
HeldByOpenOrders(p, o) ==
    IF o > Len(orders) THEN 0
    ELSE (IF orders[o].status # "refunded"
          THEN OrderedIn(orders[o].items, p, 1) ELSE 0)
         + HeldByOpenOrders(p, o + 1)

\* the stock of product p plus what the orders not refunded hold of it
Accounted(p) == products[p].stock + HeldByOpenOrders(p, 1)

\* the stock the catalogue starts with
InitialStock(p) == IF p = 1 THEN MaxStock ELSE 1

\* C28: for a product no admin edits or deletes, over createOrder and
\* updateOrderStatus requests run one after the other, whenever no request
\* is in progress the stock plus the product's quantities in the orders whose
\* status is not refunded equals the product's initial stock.
C28_StockPlusOpenOrdersConstant ==
    \A p \in DOMAIN products :
        inflight = <<>>
            => products[p].stock + HeldByOpenOrders(p, 1) = InitialStock(p)

\* C29: when updateOrderStatus(order, refunded) requests for one order not
\* yet refunded run concurrently, each item's quantity is added back to its
\* product's stock once in total: when no request is in flight, the stock
\* plus the quantities in the orders not refunded is the initial stock.
C29_ConcurrentRefundsRestockOnce ==
    inflight = <<>> =>
        \A p \in DOMAIN products : Accounted(p) = InitialStock(p)

\* C30: under any interleaving of updateCategory requests running
\* concurrently (one setting A.parentId = B while another sets B.parentId =
\* A), no category is among its own ancestors, so getAllDescendantIds ends
\* for every category.
C30_AcyclicUnderInterleaving ==
    \A c \in DOMAIN categories :
        c \notin Ancestors(c) /\ ~getAllDescendantIdsLoops(c)

====
